---- MODULE Spec2Model ----
(***************************************************************************)
(* Richardson extrapolation of utility_scripts/richardson_extrapolation.py *)
(* as a state machine.                                                     *)
(*                                                                         *)
(* Numbers.  A Python float / numpy.float64 is modelled as a record        *)
(*     [k, v, np]                                                          *)
(* k = "fin" : the finite number v / Scale  (v an integer count of units)  *)
(* k = "inf" : +infinity (v = 1) or -infinity (v = -1)                     *)
(* k = "nan" : not-a-number                                                *)
(* k = "raise" : evaluation raised a Python exception                      *)
(* k = "none" : a local name that is not bound yet                         *)
(* np tells whether the object is a numpy scalar (numpy arithmetic warns   *)
(* and yields inf/nan where Python float arithmetic raises).               *)
(* Every arithmetic result is rounded to the nearest unit, overflows to    *)
(* infinity above MaxMag units and underflows to zero below half a unit:   *)
(* the IEEE-754 behaviour of the program at a much coarser precision.      *)
(* Scale is a multiple of 45 so that the thirds and fifteenths of whole    *)
(* numbers are exact, as they are in exact arithmetic.                     *)
(***************************************************************************)
EXTENDS Integers, Sequences, FiniteSets, TLC

\* ------------------------------------------------------------ precision
\* binary digits of the fraction of a unit
FracBits == 8

Pow2(n) == 2^n

\* units per 1.0
Scale == 45 * Pow2(FracBits)

\* the prime factors of Scale, for long division
ScaleFactor(i) == IF i = 1 THEN 5 ELSE IF i <= 3 THEN 3 ELSE 2

NumScaleFactors == FracBits + 3

\* overflow threshold, in units (the model's DBL_MAX)
MaxMag == Pow2(28)

\* binary digits of a base-2 logarithm's fraction
LogBits == FracBits + 5

LogOne == Pow2(LogBits)

\* ----------------------------------------------------- integer helpers
IAbs(x) == IF x < 0 THEN -x ELSE x

ISgn(x) == IF x < 0 THEN -1 ELSE IF x > 0 THEN 1 ELSE 0

\* round(a / b) for a >= 0, b > 0
RoundDiv(a, b) == (a \div b) + (IF 2 * (a % b) >= b THEN 1 ELSE 0)

\* round(a * b / c) for a, b >= 0 and 0 < c < 46340, or -1 when the result
\* exceeds MaxMag (no intermediate product leaves 32 bits)
MulDiv(a, b, c) ==
    LET qa == a \div c
        ra == a % c
        qb == b \div c
        rb == b % c
    IN  IF qa > 0 /\ b > (2 * MaxMag) \div qa THEN -1
        ELSE IF qb > 0 /\ ra > (2 * MaxMag) \div qb THEN -1
        ELSE LET res == qa * b + ra * qb + RoundDiv(ra * rb, c)
             IN  IF res > MaxMag THEN -1 ELSE res

RECURSIVE LongDiv(_, _, _, _)
\* <<floor(r * Scale / b), remainder>> for 0 <= r < b <= MaxMag, one prime
\* factor of Scale at a time
LongDiv(r, b, i, acc) ==
    IF i > NumScaleFactors THEN <<acc, r>>
    ELSE LET k == ScaleFactor(i)
         IN  LongDiv((r * k) % b, b, i + 1, acc * k + ((r * k) \div b))

\* round(a * Scale / b) for 0 <= a <= MaxMag, 0 < b <= MaxMag, or -1 on overflow
DivScaled(a, b) ==
    LET q == a \div b
        ld == LongDiv(a % b, b, 1, 0)
    IN  IF q > MaxMag \div Scale THEN -1
        ELSE LET res == q * Scale + ld[1] + (IF 2 * ld[2] >= b THEN 1 ELSE 0)
             IN  IF res > MaxMag THEN -1 ELSE res

RECURSIVE ILog2(_)
\* floor(log2(n)) for n >= 1
ILog2(n) == IF n < 2 THEN 0 ELSE 1 + ILog2(n \div 2)

RECURSIVE LogFrac(_, _, _)
\* the fraction of log2(m / LogOne), LogOne <= m < 2 * LogOne, by repeated
\* squaring: one binary digit per step
LogFrac(m, i, acc) ==
    IF i > LogBits THEN acc
    ELSE LET sq == (m * m) \div LogOne
         IN  IF sq >= 2 * LogOne
             THEN LogFrac(sq \div 2, i + 1, 2 * acc + 1)
             ELSE LogFrac(sq, i + 1, 2 * acc)

\* log2(n) * LogOne for an integer n >= 1
Log2Int(n) ==
    LET e == ILog2(n)
        m == IF e >= LogBits THEN n \div Pow2(e - LogBits) ELSE n * Pow2(LogBits - e)
    IN  e * LogOne + LogFrac(m, 1, 0)

\* log2(Scale) * LogOne
Log2Scale == Log2Int(Scale)

\* log2(v / Scale) * LogOne for v >= 1 units
Log2Units(v) == Log2Int(v) - Log2Scale

\* round(2^(2^-i) * 2^14), i = 1..14
Exp2Table == <<23170, 19484, 17867, 17109, 16743, 16562, 16473, 16428,
               16406, 16395, 16390, 16387, 16385, 16385>>

RECURSIVE Exp2Frac(_, _, _)
\* 2^(f / LogOne) * LogOne for 0 <= f < LogOne, one binary digit per step
Exp2Frac(f, i, m) ==
    IF i > LogBits THEN m
    ELSE LET bit == (f \div Pow2(LogBits - i)) % 2
         IN  Exp2Frac(f, i + 1, IF bit = 1 THEN RoundDiv(m * Exp2Table[i], Pow2(14)) ELSE m)

\* 2^(t / LogOne) in units, or -1 on overflow
Exp2Units(t) ==
    LET e == t \div LogOne
        m == Exp2Frac(t % LogOne, 1, LogOne)
        sh == e - 5
    IN  IF sh > 10 THEN -1
        ELSE IF sh >= 0
             THEN (IF m * 45 * Pow2(sh) > MaxMag THEN -1 ELSE m * 45 * Pow2(sh))
             ELSE IF sh < -30 THEN 0
             ELSE RoundDiv(m * 45, Pow2(-sh))

\* --------------------------------------------------------------- values
Fin(v, np) == [k |-> "fin", v |-> v, np |-> np]

Inf(s, np) == [k |-> "inf", v |-> s, np |-> np]

NaN(np) == [k |-> "nan", v |-> 0, np |-> np]

Raise == [k |-> "raise", v |-> 0, np |-> FALSE]

None == [k |-> "none", v |-> 0, np |-> FALSE]

\* a Python number literal or argument: n / d
Py(n, d) == Fin((n * Scale) \div d, FALSE)

IsFinite(a) == a.k = "fin"

IsNonFinite(a) == a.k \in {"inf", "nan"}

\* a signed magnitude, -1 standing for overflow
Signed(s, mag, np) == IF mag < 0 THEN Inf(s, np) ELSE Fin(s * mag, np)

Saturate(v, np) == IF IAbs(v) > MaxMag THEN Inf(ISgn(v), np) ELSE Fin(v, np)

\* a + b
Add(a, b) ==
    LET np == a.np \/ b.np
    IN  IF a.k = "raise" \/ b.k = "raise" THEN Raise
        ELSE IF a.k = "nan" \/ b.k = "nan" THEN NaN(np)
        ELSE IF a.k = "inf" /\ b.k = "inf"
             THEN (IF a.v = b.v THEN Inf(a.v, np) ELSE NaN(np))
        ELSE IF a.k = "inf" THEN Inf(a.v, np)
        ELSE IF b.k = "inf" THEN Inf(b.v, np)
        ELSE Saturate(a.v + b.v, np)

Neg(a) == IF a.k \in {"fin", "inf"} THEN [a EXCEPT !.v = -a.v] ELSE a

\* a - b
Sub(a, b) == Add(a, Neg(b))

\* abs(a)
Abs(a) == IF a.k \in {"fin", "inf"} THEN [a EXCEPT !.v = IAbs(a.v)] ELSE a

\* a * b
Mul(a, b) ==
    LET np == a.np \/ b.np
        s == ISgn(a.v) * ISgn(b.v)
    IN  IF a.k = "raise" \/ b.k = "raise" THEN Raise
        ELSE IF a.k = "nan" \/ b.k = "nan" THEN NaN(np)
        ELSE IF a.k = "inf" \/ b.k = "inf" THEN (IF s = 0 THEN NaN(np) ELSE Inf(s, np))
        ELSE Signed(s, MulDiv(IAbs(a.v), IAbs(b.v), Scale), np)

\* a / b for Python floats only: every zero divisor raises
TruedivRaising(a, b) ==
    LET s == ISgn(a.v) * ISgn(b.v)
    IN  IF a.k = "raise" \/ b.k = "raise" THEN Raise
        ELSE IF b.k = "fin" /\ b.v = 0 THEN Raise
        ELSE IF a.k = "nan" \/ b.k = "nan" THEN NaN(FALSE)
        ELSE IF a.k = "inf"
             THEN (IF b.k = "inf" THEN NaN(FALSE)
                   ELSE Inf(IF b.v < 0 THEN -a.v ELSE a.v, FALSE))
        ELSE IF b.k = "inf" THEN Fin(0, FALSE)
        ELSE Signed(s, DivScaled(IAbs(a.v), IAbs(b.v)), FALSE)

\* a / b.  Two Python floats raise ZeroDivisionError on a zero divisor; as
\* soon as one operand is a numpy scalar the division is numpy's, which
\* returns inf or nan.  Every zero the program divides by is +0.0.
Truediv(a, b) ==
    LET np == a.np \/ b.np
        s == ISgn(a.v) * ISgn(b.v)
    IN  IF a.k = "raise" \/ b.k = "raise" THEN Raise
        ELSE IF b.k = "fin" /\ b.v = 0 /\ ~np THEN Raise
        ELSE IF a.k = "nan" \/ b.k = "nan" THEN NaN(np)
        ELSE IF a.k = "inf"
             THEN (IF b.k = "inf" THEN NaN(np)
                   ELSE Inf(IF b.v < 0 THEN -a.v ELSE a.v, np))
        ELSE IF b.k = "inf" THEN Fin(0, np)
        ELSE IF b.v = 0 THEN (IF a.v = 0 THEN NaN(np) ELSE Inf(ISgn(a.v), np))
        ELSE Signed(s, DivScaled(IAbs(a.v), IAbs(b.v)), np)

\* a < b
Less(a, b) ==
    IF a.k \notin {"fin", "inf"} \/ b.k \notin {"fin", "inf"} THEN FALSE
    ELSE IF a.k = "inf" THEN a.v < 0 /\ ~(b.k = "inf" /\ b.v < 0)
    ELSE IF b.k = "inf" THEN b.v > 0
    ELSE a.v < b.v

\* the builtin max(a, b) in the place of min
MinAsMax(a, b) == IF a.k = "raise" \/ b.k = "raise" THEN Raise
                  ELSE IF Less(a, b) THEN b ELSE a

\* the builtin min(a, b): b when b < a, else a
Min(a, b) == IF a.k = "raise" \/ b.k = "raise" THEN Raise
             ELSE IF Less(b, a) THEN b ELSE a

\* round(ln 2 * 2^14)
Ln2 == 11357

\* np.log(a): the natural logarithm, a numpy scalar
NpLog(a) ==
    IF a.k = "raise" THEN Raise
    ELSE IF a.k = "nan" THEN NaN(TRUE)
    ELSE IF a.k = "inf" THEN (IF a.v > 0 THEN Inf(1, TRUE) ELSE NaN(TRUE))
    ELSE IF a.v < 0 THEN NaN(TRUE)
    ELSE IF a.v = 0 THEN Inf(-1, TRUE)
    ELSE LET l2 == Log2Units(a.v)
             t == RoundDiv(IAbs(l2) * 45, 32)
         IN  Fin(ISgn(l2) * MulDiv(t, Ln2, Pow2(14)), TRUE)

RECURSIVE IntPow(_, _)
\* x^n in units for x >= 0 units and n >= 1, by repeated multiplication, or
\* -1 on overflow
IntPow(x, n) ==
    IF n = 1 THEN x
    ELSE LET h == IntPow(x, n - 1)
         IN  IF h < 0 THEN -1 ELSE MulDiv(h, x, Scale)

\* the largest whole exponent taken by repeated multiplication
MaxIntPow == 4

\* x ** y in IEEE arithmetic (C pow) for x >= 0
PowValue(x, y, np) ==
    IF x.k = "raise" \/ y.k = "raise" THEN Raise
    ELSE IF y.k = "fin" /\ y.v = 0 THEN Fin(Scale, np)
    ELSE IF x.k = "fin" /\ x.v = Scale THEN Fin(Scale, np)
    ELSE IF x.k = "nan" \/ y.k = "nan" THEN NaN(np)
    ELSE IF x.v < 0 THEN NaN(np)
    ELSE IF y.k = "inf"
         THEN (IF (x.k = "inf" \/ x.v > Scale) = (y.v > 0) THEN Inf(1, np) ELSE Fin(0, np))
    ELSE IF x.k = "inf" THEN (IF y.v > 0 THEN Inf(1, np) ELSE Fin(0, np))
    ELSE IF x.v = 0 THEN (IF y.v > 0 THEN Fin(0, np) ELSE Inf(1, np))
    ELSE IF y.v > 0 /\ y.v % Scale = 0 /\ y.v \div Scale <= MaxIntPow
         THEN Signed(1, IntPow(x.v, y.v \div Scale), np)
    ELSE LET l2 == Log2Units(x.v)
             t == MulDiv(IAbs(y.v), IAbs(l2), Scale)
             s == ISgn(y.v) * ISgn(l2)
         IN  IF t < 0 THEN (IF s > 0 THEN Inf(1, np) ELSE Fin(0, np))
             ELSE Signed(1, Exp2Units(s * t), np)

\* the power taken by Python's own pow: a Python float
PyPower(x, y) == PowValue(x, y, FALSE)

\* np.power(x, y): always a numpy scalar
NpPower(x, y) == PowValue(x, y, TRUE)

\* x ** y: numpy's power when an operand is a numpy scalar, else Python's,
\* which raises ZeroDivisionError for 0.0 ** negative
Pow(x, y) ==
    IF x.np \/ y.np THEN NpPower(x, y)
    ELSE IF x.k = "fin" /\ x.v = 0 /\ y.k = "fin" /\ y.v < 0 THEN Raise
    ELSE PowValue(x, y, FALSE)

\* a == b (nan equals nothing)
Equal(a, b) == a.k \in {"fin", "inf"} /\ b.k = a.k /\ b.v = a.v

\* --------------------------------------------------------------- arrays
\* a one-dimensional numpy array: the sequence el of its elements
Arr(s) == [k |-> "arr", el |-> s]

IsArr(x) == x.k = "arr"

RECURSIVE Elements(_, _)
\* the sequence <<f[1], ..., f[n]>>, built element by element
Elements(f, n) == IF n = 0 THEN <<>> ELSE Append(Elements(f, n - 1), f[n])

\* np.asarray(s): every element is a numpy scalar
NpArray(s) == Arr(Elements([i \in 1..Len(s) |-> [s[i] EXCEPT !.np = TRUE]], Len(s)))

\* len(x) of an array
Size(x) == Len(x.el)

\* x[i] of an array, a scalar broadcast to every position
At(x, i) == IF IsArr(x) THEN x.el[i] ELSE x

\* np.max(x): the scalar itself; of an array the greatest element, nan as
\* soon as one element is nan; ValueError for an array without elements
NpMax(x) ==
    IF ~IsArr(x) THEN x
    ELSE IF Size(x) = 0 THEN Raise
    ELSE IF \E i \in 1..Size(x) : x.el[i].k = "nan" THEN NaN(TRUE)
    ELSE x.el[CHOOSE i \in 1..Size(x) : \A j \in 1..Size(x) : ~Less(x.el[i], x.el[j])]

\* ------------------------------------------------------------ the state
\* the callers that may have a call of extrapolate in progress
Slots == {"a", "b"}

VARIABLES
    call,     \* call[c]: the frame of caller c's call of extrapolate
    stdout,   \* number of header lines printed so far (diagnostic stream)
    ecl,      \* the frame of the call of panair.extrapolate_CL
    jouk,     \* the airfoil.Joukowski object and its last call of create_airfoil
    fs,       \* the files that exist (working directory and airfoil database)
    ran,      \* how many times the panel code has been executed
    wing,     \* the wing.Wing object
    mu,       \* the utility_scripts.machup.MachUp object and its last setup
    disk,     \* the MachUp template file, job directory and job input file
    job,      \* the last run of a solver by one of the *_wing_cla callers
    cwd       \* the job directories of the working directory, by name

\* the state outside richardson_extrapolation.py
rest == <<ecl, jouk, fs, ran, wing, mu, disk, job, cwd>>

vars == <<call, stdout, rest>>

\* the cap on the number of header lines remembered
MaxLines == 3

\* range(100) of the fixed-point loop
MaxIter == 100

NoArgs == [m1 |-> None, m2 |-> None, m3 |-> None, f1 |-> None, f2 |-> None,
           f3 |-> None, p |-> None, reltol |-> None]

\* the local names of re_arbitrary, before any is bound
NoLocals == [p |-> None, r21 |-> None, r32 |-> None, n |-> 0, fextavg |-> None,
             pavg |-> None, error1 |-> None, error |-> None]

\* how a caller built its samples: f(m) = C + D / m^q, or not at all
NoSynth == [C |-> None, D |-> None, q |-> None]

Idle == [pc |-> "idle", branch |-> "none", args |-> NoArgs, ctx |-> NoSynth,
         loc |-> NoLocals, value |-> None, order |-> None]

\* --------------------------------------------------- the pure functions
\* extrap(f1, f2, r, p)
extrap(f1, f2, r, p) == Add(f1, Truediv(Sub(f1, f2), Sub(Pow(r, p), Py(1, 1))))

\* order with the logarithm guarded: 0 when favg is one of the two samples
order_guarded(f1, f2, favg, h) ==
    IF Equal(favg, f1) \/ Equal(favg, f2) THEN Fin(0, TRUE)
    ELSE Truediv(NpLog(Truediv(Abs(Sub(favg, f2)), Abs(Sub(favg, f1)))), NpLog(h))

\* order(f1, f2, favg, h)
order(f1, f2, favg, h) ==
    Truediv(NpLog(Truediv(Abs(Sub(favg, f2)), Abs(Sub(favg, f1)))), NpLog(h))

\* average(v1, v2)
average(v1, v2) == Truediv(Add(v1, v2), Py(2, 1))

\* the test of line 4 made with a tolerance of two units
IsDoublingApprox(a) ==
    /\ IAbs(a.m3.v - 2 * a.m2.v) <= 2
    /\ IAbs(a.m2.v - 2 * a.m1.v) <= 2

\* the test of line 4
IsDoubling(a) == Equal(a.m3, Add(a.m2, a.m2)) /\ Equal(a.m2, Add(a.m1, a.m1))

\* re_124 with the second pass divided by 16 instead of 15
re_124_sixteenth(m1, m2, m3, f1, f2, f3) ==
    LET f21 == Add(f2, Truediv(Sub(f2, f1), Py(3, 1)))
        f32 == Add(f3, Truediv(Sub(f3, f2), Py(3, 1)))
        re == Add(f32, Truediv(Sub(f32, f21), Py(16, 1)))
    IN  <<re, Py(2, 1)>>

\* re_124 with the first passes made for a first-order method (2^1 - 1)
re_124_first_order(m1, m2, m3, f1, f2, f3) ==
    LET f21 == Add(f2, Truediv(Sub(f2, f1), Py(1, 1)))
        f32 == Add(f3, Truediv(Sub(f3, f2), Py(1, 1)))
        re == Add(f32, Truediv(Sub(f32, f21), Py(15, 1)))
    IN  <<re, Py(2, 1)>>

RECURSIVE re_124(_, _, _, _, _, _)
\* re_124: <<re, 2>>; on arrays the three lines act position by position
re_124(m1, m2, m3, f1, f2, f3) ==
    IF IsArr(f1)
    THEN <<Arr(Elements([i \in 1..Size(f1) |-> re_124(m1, m2, m3, f1.el[i], f2.el[i], f3.el[i])[1]], Size(f1))), Py(2, 1)>>
    ELSE LET f21 == Add(f2, Truediv(Sub(f2, f1), Py(3, 1)))
             f32 == Add(f3, Truediv(Sub(f3, f2), Py(3, 1)))
             re == Add(f32, Truediv(Sub(f32, f21), Py(15, 1)))
         IN  <<re, Py(2, 1)>>

\* lines 18-20 of re_arbitrary: the locals on entry to the loop
EnterLoop(a) ==
    [NoLocals EXCEPT !.error = Py(1, 1),
                     !.p = a.p,
                     !.r21 = NpPower(Truediv(a.m1, a.m2), Truediv(Py(1, 1), Py(3, 1))),
                     !.r32 = NpPower(Truediv(a.m2, a.m3), Truediv(Py(1, 1), Py(3, 1)))]

\* the baseline taken anew in every pass (line 37 without the test of line 36)
Error1Renewed(l, diff) == diff

\* the baseline the error of line 39 is divided by
Error1Of(l, diff) == IF l.n = 0 THEN diff ELSE l.error1

\* the loop body with the orders estimated before fextavg is renewed: from
\* the second pass on they are taken against the previous pass's average
BodyStaleOrder(l, a) ==
    LET fext1 == extrap(a.f1, a.f2, l.r21, l.p)
        fext2 == extrap(a.f2, a.f3, l.r32, l.p)
        fextavg == average(fext1, fext2)
        against == IF l.n = 0 THEN fextavg ELSE l.fextavg
        p1 == order(a.f1, a.f2, against, l.r21)
        p2 == order(a.f2, a.f3, against, l.r32)
        pavg == Min(p1, p2)
        diff == Abs(Sub(pavg, l.p))
        error1 == Error1Of(l, diff)
    IN  [l EXCEPT !.fextavg = fextavg, !.pavg = pavg, !.error1 = error1,
                  !.error = Truediv(diff, error1), !.p = pavg, !.n = l.n + 1]

\* the locals and the arguments as position i of the arrays sees them
LocalsAt(l, i) == [l EXCEPT !.p = At(l.p, i), !.error1 = At(l.error1, i)]

ArgsAt(a, i) == [a EXCEPT !.f1 = a.f1.el[i], !.f2 = a.f2.el[i], !.f3 = a.f3.el[i]]

RECURSIVE Body(_, _)
\* lines 26-40: one pass of the loop body, from locals l to the new locals.
\* On arrays every line acts position by position, line 32 taking the
\* minimum of the two orders at each position.
Body(l, a) ==
    IF IsArr(a.f1)
    THEN LET at == Elements([i \in 1..Size(a.f1) |-> Body(LocalsAt(l, i), ArgsAt(a, i))], Size(a.f1))
             pavg == NpArray(Elements([i \in 1..Size(a.f1) |-> at[i].pavg], Size(a.f1)))
         IN  [l EXCEPT !.fextavg = Arr(Elements([i \in 1..Size(a.f1) |-> at[i].fextavg], Size(a.f1))),
                       !.pavg = pavg,
                       !.error1 = Arr(Elements([i \in 1..Size(a.f1) |-> at[i].error1], Size(a.f1))),
                       !.error = Arr(Elements([i \in 1..Size(a.f1) |-> at[i].error], Size(a.f1))),
                       !.p = pavg, !.n = l.n + 1]
    ELSE
    LET fext1 == extrap(a.f1, a.f2, l.r21, l.p)
        fext2 == extrap(a.f2, a.f3, l.r32, l.p)
        fextavg == average(fext1, fext2)
        p1 == order(a.f1, a.f2, fextavg, l.r21)
        p2 == order(a.f2, a.f3, fextavg, l.r32)
        pavg == Min(p1, p2)
        diff == Abs(Sub(pavg, l.p))
        error1 == Error1Of(l, diff)
    IN  [l EXCEPT !.fextavg = fextavg, !.pavg = pavg, !.error1 = error1,
                  !.error = Truediv(diff, error1), !.p = pavg, !.n = l.n + 1]

\* some evaluation of the pass raised, np.max of line 44 included
Raised(l) == \/ \E f \in DOMAIN l : f # "n" /\ l[f].k = "raise"
             \/ NpMax(l.error).k = "raise"

\* line 44 with <= in the place of <
ConvergedOrEqual(l, a) ==
    Less(NpMax(l.error), a.reltol) \/ Equal(NpMax(l.error), a.reltol)

\* line 44: np.max(error) < reltol
Converged(l, a) == Less(NpMax(l.error), a.reltol)

\* the loop is over: an exception, a break, or range(100) exhausted
Finished(l, a) == Raised(l) \/ (l.n >= 1 /\ Converged(l, a)) \/ l.n >= MaxIter

RECURSIVE Passes(_, _, _)
\* the locals after at most k further passes of the loop
Passes(l, a, k) ==
    IF k = 1 THEN (IF Finished(l, a) THEN l ELSE Body(l, a))
    ELSE LET h == Passes(l, a, k \div 2)
         IN  IF h.n >= 0 THEN Passes(h, a, k - (k \div 2)) ELSE h

\* extrapolate(m1, m2, m3, f1, f2, f3, p, reltol) run from call to return
\* with nothing else running: the pair it returns
RunAlone(a) ==
    IF IsDoubling(a) THEN re_124(a.m1, a.m2, a.m3, a.f1, a.f2, a.f3)
    ELSE LET l == Passes(EnterLoop(a), a, MaxIter)
         IN  IF Raised(l) THEN <<Raise, Raise>> ELSE <<l.fextavg, l.pavg>>

\* ---------------------------------------------------------- the actions
\* a caller calls extrapolate(m1, m2, m3, f1, f2, f3, p, reltol)
Call(c, inputs) ==
    /\ call[c].pc = "idle"
    /\ \E in \in inputs :
          call' = [call EXCEPT ![c] = [Idle EXCEPT !.pc = "extrapolate",
                                                   !.args = in.args, !.ctx = in.ctx]]
    /\ UNCHANGED <<stdout, rest>>

\* a caller whose call has returned calls again
CallAgain(c, inputs) ==
    /\ call[c].pc \in {"done", "raised"}
    /\ \E in \in inputs :
          call' = [call EXCEPT ![c] = [Idle EXCEPT !.pc = "extrapolate",
                                                   !.args = in.args, !.ctx = in.ctx]]
    /\ UNCHANGED <<stdout, rest>>

\* lines 4-7: the branch
Extrapolate(c) ==
    /\ call[c].pc = "extrapolate"
    /\ LET to == IF IsDoubling(call[c].args) THEN "re_124" ELSE "re_arbitrary"
       IN  call' = [call EXCEPT ![c].pc = to, ![c].branch = to]
    /\ UNCHANGED <<stdout, rest>>

\* lines 10-14 returning the caller's assumed order instead of 2
Re124AssumedOrder(c) ==
    /\ call[c].pc = "re_124"
    /\ LET a == call[c].args
           res == re_124(a.m1, a.m2, a.m3, a.f1, a.f2, a.f3)
       IN  call' = [call EXCEPT ![c].pc = IF res[1].k = "raise" THEN "raised" ELSE "done",
                                ![c].value = res[1],
                                ![c].order = a.p]
    /\ UNCHANGED <<stdout, rest>>

\* lines 10-14
Re124(c) ==
    /\ call[c].pc = "re_124"
    /\ LET a == call[c].args
           res == re_124(a.m1, a.m2, a.m3, a.f1, a.f2, a.f3)
       IN  call' = [call EXCEPT ![c].pc = IF res[1].k = "raise" THEN "raised" ELSE "done",
                                ![c].value = res[1],
                                ![c].order = res[2]]
    /\ UNCHANGED <<stdout, rest>>

\* lines 17-24: the ratios and the header line
ReArbitrary(c) ==
    /\ call[c].pc = "re_arbitrary"
    /\ LET l == EnterLoop(call[c].args)
       IN  IF Raised(l)
           THEN /\ call' = [call EXCEPT ![c].pc = "raised"]
                /\ UNCHANGED stdout
           ELSE /\ call' = [call EXCEPT ![c].pc = "loop", ![c].loc = l]
                /\ stdout' = IF stdout < MaxLines THEN stdout + 1 ELSE stdout
    /\ UNCHANGED rest

\* the loop without its cap: it ends on break only
IterateUncapped(c) ==
    /\ call[c].pc = "loop"
    /\ LET l == Body(call[c].loc, call[c].args)
       IN  call' = [call EXCEPT ![c].loc = l,
                                ![c].pc = IF Raised(l) THEN "raised"
                                          ELSE IF Converged(l, call[c].args)
                                               THEN "return" ELSE "loop"]
    /\ UNCHANGED <<stdout, rest>>

\* the loop with error1 kept in a module-level name: the baseline a call
\* records in its first pass replaces that of every call in its loop
IterateGlobalError1(c) ==
    /\ call[c].pc = "loop"
    /\ LET l == Body(call[c].loc, call[c].args)
           to == IF Raised(l) THEN "raised"
                 ELSE IF Converged(l, call[c].args) \/ l.n >= MaxIter
                      THEN "return" ELSE "loop"
       IN  call' = [d \in Slots |->
                       IF d = c THEN [call[c] EXCEPT !.loc = l, !.pc = to]
                       ELSE IF call[d].pc = "loop" /\ call[d].loc.n > 0 /\ l.n = 1
                            THEN [call[d] EXCEPT !.loc.error1 = l.error1]
                            ELSE call[d]]
    /\ UNCHANGED <<stdout, rest>>

\* lines 25-44: one iteration; the loop ends on break or after MaxIter passes
Iterate(c) ==
    /\ call[c].pc = "loop"
    /\ LET l == Body(call[c].loc, call[c].args)
       IN  call' = [call EXCEPT ![c].loc = l,
                                ![c].pc = IF Raised(l) THEN "raised"
                                          ELSE IF Converged(l, call[c].args) \/ l.n >= MaxIter
                                               THEN "return" ELSE "loop"]
    /\ UNCHANGED <<stdout, rest>>

\* line 46 returning one order for the whole array, the greatest
ReturnScalarOrder(c) ==
    /\ call[c].pc = "return"
    /\ call' = [call EXCEPT ![c].pc = "done",
                            ![c].value = call[c].loc.fextavg,
                            ![c].order = NpMax(call[c].loc.pavg)]
    /\ UNCHANGED <<stdout, rest>>

\* line 46
Return(c) ==
    /\ call[c].pc = "return"
    /\ call' = [call EXCEPT ![c].pc = "done",
                            ![c].value = call[c].loc.fextavg,
                            ![c].order = call[c].loc.pavg]
    /\ UNCHANGED <<stdout, rest>>

\* ------------------------------------------------- panair.extrapolate_CL
\* s[start:stop:step] of Python for start >= 0 and step >= 1, where stop is
\* negative (counted from the end) or 0, which stands for no stop at all
SliceStop(s, stop) == IF stop = 0 THEN Len(s) ELSE IF Len(s) + stop < 0 THEN 0 ELSE Len(s) + stop

RECURSIVE SliceFrom(_, _, _, _)
SliceFrom(s, i, hi, step) ==
    IF i >= hi THEN <<>> ELSE <<s[i + 1]>> \o SliceFrom(s, i + step, hi, step)

\* the slice that forgets its start: s[:stop:step]
SliceFromZero(s, start, stop, step) == SliceFrom(s, 0, SliceStop(s, stop), step)

Slice(s, start, stop, step) == SliceFrom(s, start, SliceStop(s, stop), step)

\* the number of tuples zip yields: the length of its shortest argument
ZipLen(ss) == CHOOSE n \in {Len(ss[j]) : j \in 1..Len(ss)} :
                  \A j \in 1..Len(ss) : n <= Len(ss[j])

RECURSIVE Sum(_, _)
\* s[1] + ... + s[n], left to right
Sum(s, n) == IF n = 1 THEN s[1] ELSE Add(Sum(s, n - 1), s[n])

\* (cl1 * a1 + ... + clj * aj) / (a1 + ... + aj) for every tuple that zip
\* yields from the areas as and the lift coefficients cls
Means(as, cls) ==
    LET n == ZipLen(as \o cls)
        j == Len(as)
    IN  NpArray(Elements(
            [k \in 1..n |->
                Truediv(Sum([t \in 1..j |-> Mul(cls[t][k], as[t][k])], j),
                        Sum([t \in 1..j |-> as[t][k]], j))], n))

\* lines 242-252: the frame of extrapolate_CL once the medium and the fine
\* lift coefficients are reduced
extrapolate_CL(panair1, panair2, panair3) ==
    LET A2 == panair2.sec_Area.el
        C2 == panair2.sec_CL.el
        A3 == panair3.sec_Area.el
        C3 == panair3.sec_CL.el
    IN  [pc |-> "called",
         panair1 |-> panair1, panair2 |-> panair2, panair3 |-> panair3,
         clp1 |-> panair1.sec_CL,
         clp2 |-> Means(<<Slice(A2, 0, -1, 2), Slice(A2, 1, 0, 2)>>,
                        <<Slice(C2, 0, -1, 2), Slice(C2, 1, 0, 2)>>),
         clp3 |-> Means(<<Slice(A3, 0, -3, 4), Slice(A3, 1, -2, 4),
                          Slice(A3, 2, -1, 4), Slice(A3, 3, 0, 4)>>,
                        <<Slice(C3, 0, -3, 4), Slice(C3, 1, -2, 4),
                          Slice(C3, 2, -1, 4), Slice(C3, 3, 0, 4)>>),
         y_extrapolated |-> None, cl_extrapolated |-> None]

\* line 254: the arguments of the call of extrapolate, with its default
\* options
extrapolate_CL_args(frame) ==
    [m1 |-> Py(1, 1), m2 |-> Py(2, 1), m3 |-> Py(4, 1),
     f1 |-> frame.clp1, f2 |-> frame.clp2, f3 |-> frame.clp3,
     p |-> Py(2, 1), reltol |-> Fin(1, FALSE)]

\* the coarse analysis has 0 .. MaxSec sections
MaxSec == 2

\* the section lift coefficients start from 0 .. MaxCL
MaxCL == 1

\* the numpy array a + b, a + 2 b, ..., a + len b
Ramp(a, b, len) == NpArray(Elements([i \in 1..len |-> Py(a + b * i, 1)], len))

\* an analysis of len sections: its section lift coefficients rise, fall or
\* stay level along the span, its section areas are all 1 or 1, 2, 3, ...,
\* its section y-coordinates are 1, 2, 3, ...
Analyses(len) ==
    {[sec_CL |-> Ramp(a, b, len), sec_Area |-> Ramp(w, 1 - w, len),
      sec_y |-> Ramp(0, 1, len)] : a \in 0..MaxCL, b \in -1..1, w \in 0..1}

\* a coarse analysis of n sections, a medium one of 2 n and a fine one of 4 n
CLInputs ==
    UNION {Analyses(n) \X Analyses(2 * n) \X Analyses(4 * n) : n \in 0..MaxSec}

\* a caller calls extrapolate_CL on three analyses: lines 242-254, up to the
\* call of extrapolate, which is call "a"
ExtrapolateCL ==
    /\ ecl.pc = "idle" /\ call["a"].pc = "idle"
    /\ \E in \in CLInputs :
          /\ ecl' = extrapolate_CL(in[1], in[2], in[3])
          /\ call' = [call EXCEPT !["a"] =
                         [Idle EXCEPT !.pc = "extrapolate",
                                      !.args = extrapolate_CL_args(
                                                   extrapolate_CL(in[1], in[2], in[3]))]]
    /\ UNCHANGED <<stdout, jouk, fs, ran, wing, mu, disk, job, cwd>>

\* lines 254-256: extrapolate has returned, and extrapolate_CL returns
ExtrapolateCLReturn ==
    /\ ecl.pc = "called" /\ call["a"].pc = "done"
    /\ ecl' = [ecl EXCEPT !.pc = "done", !.y_extrapolated = ecl.panair1.sec_y,
                          !.cl_extrapolated = call["a"].value]
    /\ UNCHANGED <<call, stdout, jouk, fs, ran, wing, mu, disk, job, cwd>>

\* ------------------------------------------------------ airfoil.Joukowski
\* strings are sequences of tokens: a token is a character, or a piece of a
\* literal that holds no '.'
Digit(d) == <<"0", "1", "2", "3", "4", "5", "6", "7", "8", "9">>[d + 1]

RECURSIVE Digits(_)
\* "{}".format(n) for an int n
Digits(n) ==
    IF n < 0 THEN <<"-">> \o Digits(-n)
    ELSE IF n < 10 THEN <<Digit(n)>>
    ELSE Append(Digits(n \div 10), Digit(n % 10))

RECURSIVE Replace(_, _, _)
\* s.replace(old, new) for a one-character old
Replace(s, old, new) ==
    IF s = <<>> THEN <<>>
    ELSE <<IF Head(s) = old THEN new ELSE Head(s)>> \o Replace(Tail(s), old, new)

\* lines 28-43 without the correction of an odd npts
JoukowskiInitAsGiven(t, cld, npts) ==
    [pc |-> "ready", t |-> t, cld |-> cld, npts |-> npts, requested |-> npts,
     CL_alpha |-> "unset", calls |-> 0, ret |-> "none"]

\* lines 28-43: Joukowski(t, cld, npts); t and cld are given by the text
\* that format prints for them
JoukowskiInit(t, cld, npts) ==
    [pc |-> "ready", t |-> t, cld |-> cld,
     npts |-> IF npts % 2 = 1 THEN npts + 1 ELSE npts, requested |-> npts,
     CL_alpha |-> "unset", calls |-> 0, ret |-> "none"]

\* lines 46-49: the name property
name(self) ==
    Replace(<<"joukowski_t">> \o self.t \o <<"_cl">> \o self.cld \o <<"_af">>
                \o Digits(self.npts), ".", "p")

\* the default arguments of create_airfoil
Cmd == <<"Joukowski", ".", "exe">>
DbDir == <<"AirfoilDatabase">>
Sep == <<"/">>

airfoil_json_name(self) == DbDir \o Sep \o name(self) \o <<".", "json">>
airfoil_profile_name(self) == DbDir \o Sep \o name(self) \o <<"_profile", ".", "txt">>
InputFile == <<"joukowski_input", ".", "txt">>
StdoutFile == <<"joukowski_stdout">>
output_file(self) == Digits(self.npts) \o <<".", "txt">>
LocalTemplate == <<"flat_plate", ".", "json">>
DbTemplate == DbDir \o Sep \o LocalTemplate

\* what one execution of the panel code may leave behind: its listing is
\* complete or not, and it has written the profile file or not
PanelOutcomes == {[listing |-> l, profile |-> w] : l \in BOOLEAN, w \in BOOLEAN}

\* lines 57-121: the database lacks the airfoil
run_panel_code(self, files, runs, out) ==
    LET json == airfoil_json_name(self)
        prof == airfoil_profile_name(self)
        cleared == files \ {json, prof}
        started == cleared \cup {InputFile, StdoutFile}
                      \cup (IF out.profile THEN {output_file(self)} ELSE {})
        moved == (started \ {output_file(self)}) \cup {prof}
    IN  IF Cmd \notin cleared
        THEN <<[self EXCEPT !.pc = "returned", !.ret = "True"], cleared, runs>>
        ELSE IF ~out.listing
        THEN <<[self EXCEPT !.pc = "raised", !.ret = "none"], started, runs + 1>>
        ELSE IF output_file(self) \notin started
        THEN <<[self EXCEPT !.pc = "returned", !.ret = "True", !.CL_alpha = "panel"],
               started, runs + 1>>
        ELSE IF LocalTemplate \notin moved /\ DbTemplate \notin moved
        THEN <<[self EXCEPT !.pc = "returned", !.ret = "True", !.CL_alpha = "panel"],
               moved, runs + 1>>
        ELSE <<[self EXCEPT !.pc = "returned", !.ret = "False", !.CL_alpha = "panel"],
               (moved \cup {json}) \ {InputFile, StdoutFile}, runs + 1>>

\* lines 123-129: both files are in the database
read_database(self, files, runs) ==
    <<[self EXCEPT !.pc = "returned", !.ret = "False", !.CL_alpha = "json"], files, runs>>

\* create_airfoil without the test of lines 56-57
create_airfoil_always(self, files, runs, out) == run_panel_code(self, files, runs, out)

\* lines 52-131: <<the object, the files, the count of executions>> after
\* create_airfoil() with the default arguments, the panel code leaving out
create_airfoil(self, files, runs, out) ==
    IF airfoil_json_name(self) \notin files \/ airfoil_profile_name(self) \notin files
    THEN run_panel_code(self, files, runs, out)
    ELSE read_database(self, files, runs)

\* the cap on the number of calls of create_airfoil
MaxCalls == 3

\* the requested numbers of points are -1 .. MaxPts, 99 and 100
MaxPts == 3

Points == (-1..MaxPts) \cup {99, 100}

\* the thickness 0.12 and the design lift coefficient 0.5, as format prints them
Thickness == <<"0", ".", "1", "2">>
DesignCl == <<"0", ".", "5">>

\* a caller constructs the airfoil
NewJoukowski ==
    /\ jouk.pc = "none"
    /\ \E npts \in Points : jouk' = JoukowskiInit(Thickness, DesignCl, npts)
    /\ UNCHANGED <<call, stdout, ecl, fs, ran, wing, mu, disk, job, cwd>>

\* a caller calls create_airfoil()
CreateAirfoil ==
    /\ jouk.pc # "none" /\ jouk.calls < MaxCalls
    /\ \E out \in PanelOutcomes :
          LET r == create_airfoil(jouk, fs, ran, out)
          IN  /\ jouk' = [r[1] EXCEPT !.calls = jouk.calls + 1]
              /\ fs' = r[2]
              /\ ran' = r[3]
    /\ UNCHANGED <<call, stdout, ecl, wing, mu, disk, job, cwd>>

\* the files a user may put in place or take away: the executable, the
\* templates and the airfoil's two database files
UserFiles ==
    {Cmd, LocalTemplate, DbTemplate}
        \cup (IF jouk.pc = "none" THEN {}
              ELSE {airfoil_json_name(jouk), airfoil_profile_name(jouk)})

\* the user puts a file in place
PutFile ==
    /\ \E f \in UserFiles \ fs : fs' = fs \cup {f}
    /\ UNCHANGED <<call, stdout, ecl, jouk, ran, wing, mu, disk, job, cwd>>

\* the user deletes a file
DeleteFile ==
    /\ \E f \in UserFiles \cap fs : fs' = fs \ {f}
    /\ UNCHANGED <<call, stdout, ecl, jouk, ran, wing, mu, disk, job, cwd>>

\* ------------------------------------------------------------ wing.Wing
\* the spanwise stations of a semispan are counted in half sections from the
\* root: section endpoint i is station 2 i, the centerpoint of section i is
\* station 2 i - 1
Linspace(n) == Elements([i \in 1..(n + 1) |-> 2 * (i - 1)], n + 1)

\* [(y1 + y2) / 2 for y1, y2 in zip(y[:-1], y[1:])]
Midpoints(y) ==
    LET lo == Slice(y, 0, -1, 1)
        hi == Slice(y, 1, 0, 1)
        n == ZipLen(<<lo, hi>>)
    IN  Elements([i \in 1..n |-> (lo[i] + hi[i]) \div 2], n)

\* s[::-1]
Reversed(s) == Elements([i \in 1..Len(s) |-> s[Len(s) + 1 - i]], Len(s))

\* lines 58-112: the object after create_sections; both clusterings and the
\* linear spacing place nSec + 1 endpoints and nSec centerpoints on the
\* semispan
create_sections(self) ==
    LET y0 == Linspace(self.nSec)
        yc0 == Midpoints(y0)
        y == IF ~self.symm THEN Reversed(y0) \o Slice(y0, 1, 0, 1) ELSE y0
        yc == IF ~self.symm THEN Reversed(yc0) \o Slice(y, 0, 0, 1) ELSE yc0
    IN  [self EXCEPT !.pc = "built", !.y = y, !.yc = yc,
                     !.theta = Elements([i \in 1..Len(y) |-> <<"theta", y[i]>>], Len(y)),
                     !.thetac = Elements([i \in 1..Len(yc) |-> <<"theta", yc[i]>>], Len(yc)),
                     !.c = Elements([i \in 1..Len(y) |-> "c_avg"], Len(y)),
                     !.cc = Elements([i \in 1..Len(yc) |-> "c_avg"], Len(yc))]

\* lines 157-161: one area for each pair of neighbouring endpoints
sec_Area(self) ==
    LET hi == Slice(self.y, 1, 0, 1)
        lo == Slice(self.y, 0, -1, 1)
    IN  Elements([i \in 1..Len(hi) |-> <<"area", lo[i], hi[i]>>], Len(hi))

\* the semispan has 0 .. MaxNSec sections
MaxNSec == 4

\* lines 21-55: Rectangular(RA, b, nSec, symm, None, root_clustering,
\* tip_clustering)
NewWing ==
    /\ wing.pc = "none"
    /\ \E RA \in {Py(4, 1), Py(8, 1)}, b \in {Py(1, 1), Py(8, 1)}, nSec \in 0..MaxNSec,
          symm \in BOOLEAN, rc \in BOOLEAN, tc \in BOOLEAN :
          wing' = create_sections([pc |-> "init", RA |-> RA, b |-> b, nSec |-> nSec,
                                   symm |-> symm, root_clustering |-> rc,
                                   tip_clustering |-> tc, y |-> <<>>, yc |-> <<>>,
                                   theta |-> <<>>, thetac |-> <<>>, c |-> <<>>,
                                   cc |-> <<>>])
    /\ UNCHANGED <<call, stdout, ecl, jouk, fs, ran, mu, disk, job, cwd>>

\* ------------------------------------------- utility_scripts.machup.MachUp
\* Python's None where the other values are strings
PyNone == "<None>"

\* a JSON object is a function of its keys; d[k] = v
SetItem(d, k, v) == (k :> v) @@ d

\* the templates a user may install: with a solver object or without one,
\* with a low-aspect-ratio method for wing_1 or without one
TemplateWing ==
    [name |-> "wing_1", span |-> Py(1, 1), root_chord |-> "1.0", tip_chord |-> "1.0",
     grid |-> 40, root_clustering |-> 1, tip_clustering |-> 1, sweep |-> Py(0, 1),
     airfoils |-> [NACA_0012 |-> ""]]

Templates ==
    {so @@ [wings |-> [wing_1 |-> lo @@ TemplateWing], airfoil_DB |-> ".",
            reference |-> [area |-> Py(1, 1)], run |-> [forces |-> ""]] :
        so \in {<<>>, [solver |-> [type |-> "linear", convergence |-> Py(1, 100)]],
                [solver |-> [type |-> "nonlinear", convergence |-> Py(1, 100)]]},
        lo \in {<<>>, [low_aspect_ratio_method |-> "Classical"],
                [low_aspect_ratio_method |-> "Hodson"]}}

\* lines 239-262 writing the method whatever it is
wing_data_always(self, wing_template_data) ==
    LET w == self.wing
        d1 == SetItem(wing_template_data, "span", Truediv(w.b, Py(2, 1)))
        d2 == SetItem(d1, "root_chord", IF w.symm THEN w.c[1] ELSE w.c[w.nSec + 1])
        d3 == SetItem(d2, "tip_chord", IF w.type = "Elliptic" THEN "-1.0" ELSE w.c[Len(w.c)])
        d4 == SetItem(d3, "grid", w.nSec)
        d5 == SetItem(d4, "root_clustering", IF w.root_clustering THEN 1 ELSE 0)
        d6 == SetItem(d5, "tip_clustering", IF w.tip_clustering THEN 1 ELSE 0)
    IN  SetItem(d6, "low_aspect_ratio_method", self.lowra_method)

\* lines 239-262
wing_data(self, wing_template_data) ==
    LET w == self.wing
        d1 == SetItem(wing_template_data, "span", Truediv(w.b, Py(2, 1)))
        d2 == SetItem(d1, "root_chord", IF w.symm THEN w.c[1] ELSE w.c[w.nSec + 1])
        d3 == SetItem(d2, "tip_chord", IF w.type = "Elliptic" THEN "-1.0" ELSE w.c[Len(w.c)])
        d4 == SetItem(d3, "grid", w.nSec)
        d5 == SetItem(d4, "root_clustering", IF w.root_clustering THEN 1 ELSE 0)
        d6 == SetItem(d5, "tip_clustering", IF w.tip_clustering THEN 1 ELSE 0)
    IN  IF self.lowra_method # PyNone
        THEN SetItem(d6, "low_aspect_ratio_method", self.lowra_method)
        ELSE d6

\* lines 265-270
reference_data(self) ==
    [area |-> Truediv(Mul(self.wing.b, self.wing.b), self.wing.RA),
     longitudinal_length |-> self.wing.b,
     lateral_length |-> Truediv(Truediv(Mul(self.wing.b, self.wing.b), self.wing.RA),
                                self.wing.b)]

\* lines 65-81: the job's input data made from the template's
input_data(self, template) ==
    LET i1 == SetItem(template, "airfoil_DB", self.airfoil.dbdir)
        i2 == IF self.solver # PyNone
              THEN SetItem(i1, "solver", SetItem(i1.solver, "type", self.solver))
              ELSE i1
        w1 == SetItem(i2.wings.wing_1, "airfoils", [a \in {self.airfoil.name} |-> ""])
        i3 == SetItem(i2, "wings", SetItem(i2.wings, "wing_1", w1))
        i4 == SetItem(i3, "wings", SetItem(i3.wings, "wing_1", wing_data(self, w1)))
    IN  SetItem(i4, "reference", reference_data(self))

\* lines 202-224: <<created, the disk>> after create_job_directory(overwrite),
\* the user answering ow when asked
create_job_directory(d, overwrite, ow) ==
    LET over == IF overwrite = PyNone THEN ow ELSE overwrite
    IN  IF d.jobdir /\ over # "True" THEN <<FALSE, d>>
        ELSE <<TRUE, [d EXCEPT !.jobdir = TRUE, !.input = <<>>]>>

\* lines 47-87: <<the object, the disk>> after setup(overwrite); error is what
\* the airfoil's create_airfoil() returns
setup(self, d, overwrite, error, ow) ==
    LET made == create_job_directory(d, overwrite, ow)
    IN  IF error THEN <<[self EXCEPT !.pc = "returned", !.ret = PyNone], d>>
        ELSE IF d.template = <<>> THEN <<[self EXCEPT !.pc = "returned", !.ret = PyNone], d>>
        ELSE IF ~made[1] THEN <<[self EXCEPT !.pc = "returned", !.ret = "False"], made[2]>>
        ELSE IF self.solver # PyNone /\ "solver" \notin DOMAIN d.template
        THEN <<[self EXCEPT !.pc = "raised", !.ret = "none"], made[2]>>
        ELSE <<[self EXCEPT !.pc = "returned", !.ret = "True"],
               [made[2] EXCEPT !.input = input_data(self, d.template)]>>

\* the cap on the number of calls of setup
MaxSetups == 2

\* the wings a MachUp object is made for
MachUpWings ==
    {create_sections([pc |-> "init", RA |-> Py(8, 1), b |-> Py(8, 1), nSec |-> 2,
                      symm |-> symm, root_clustering |-> FALSE, tip_clustering |-> TRUE,
                      y |-> <<>>, yc |-> <<>>, theta |-> <<>>, thetac |-> <<>>,
                      c |-> <<>>, cc |-> <<>>]) @@ [type |-> "Rectangular"] :
        symm \in BOOLEAN}

\* lines 16-44: MachUp(airfoil, wing, jobdir = 'job')
NewMachUp ==
    /\ mu.pc = "none"
    /\ \E w \in MachUpWings :
          mu' = [pc |-> "ready", airfoil |-> [name |-> "joukowski", dbdir |-> "AirfoilDatabase"],
                 wing |-> w, solver |-> PyNone, lowra_method |-> PyNone,
                 setups |-> 0, ret |-> "none"]
    /\ UNCHANGED <<call, stdout, ecl, jouk, fs, ran, wing, disk, job, cwd>>

\* machup_wing_cla.py lines 57-58: the caller sets the two attributes
SetAttributes ==
    /\ mu.pc = "ready"
    /\ \E so \in {PyNone, "linear", "nonlinear"}, lo \in {PyNone, "Classical", "Jones"} :
          mu' = [mu EXCEPT !.solver = so, !.lowra_method = lo]
    /\ UNCHANGED <<call, stdout, ecl, jouk, fs, ran, wing, disk, job, cwd>>

\* the caller calls setup(overwrite)
Setup ==
    /\ mu.pc # "none" /\ mu.setups < MaxSetups
    /\ \E overwrite \in {PyNone, "True", "False"}, error \in BOOLEAN, ow \in {"True", "False"} :
          LET r == setup(mu, disk, overwrite, error, ow)
          IN  /\ mu' = [r[1] EXCEPT !.setups = mu.setups + 1]
              /\ disk' = r[2]
    /\ UNCHANGED <<call, stdout, ecl, jouk, fs, ran, wing, job, cwd>>

\* the user installs a template file
PutTemplate ==
    /\ disk.template = <<>>
    /\ \E t \in Templates : disk' = [disk EXCEPT !.template = t]
    /\ UNCHANGED <<call, stdout, ecl, jouk, fs, ran, wing, mu, job, cwd>>

\* ---------------------------------------------------- job directories
\* cwd[n] is the job directory named n: the input file in it (<<>> for no
\* file), whether it holds the copy of the executable and the pipe file, the
\* input its result files were computed from (<<>> for no results), and the
\* number of solver runs made in it

\* wing.py lines 51-55 and 208-210: the name of a rectangular wing, the
\* aspect ratio a whole float
Wing_name(w) ==
    <<"rectangular_", "ra">> \o Digits(w.RA.v \div Scale) \o <<".", "0", "_grid">>
        \o Digits(w.nSec)
        \o (IF w.root_clustering THEN <<"_rcOn">> ELSE <<>>)
        \o (IF ~w.tip_clustering THEN <<"_tcOff">> ELSE <<>>)
        \o (IF ~w.symm THEN <<"_full">> ELSE <<>>)

\* machup.py lines 273-279: the name property
MachUp_name(self) ==
    <<"machup_", self.airfoil.name, "_">> \o Wing_name(self.wing)
        \o (IF self.lowra_method # PyNone /\ self.lowra_method # "Classical"
            THEN <<"_", self.lowra_method>> ELSE <<>>)

\* panair.py lines 209-211: the name property
Panair_name(airfoil, w) == <<"panair_", airfoil.name, "_">> \o Wing_name(w)

\* pralines.py lines 31-33: the name property
Pralines_name(self) ==
    <<"pralines_", self.larc, "_a">> \o self.a0 \o <<"_">> \o Wing_name(self.wing)

\* `if m.setup(overwrite = False): m.execute()` on a MachUp object made with
\* jobdir = None: <<the object, the directories>>; ok tells whether the
\* solver wrote its result files
run_machup(m, dirs, template, error, ok) ==
    LET n == MachUp_name(m)
        d == [template |-> template, jobdir |-> n \in DOMAIN dirs,
              input |-> IF n \in DOMAIN dirs THEN dirs[n].input ELSE <<>>]
        r == setup(m, d, "False", error, "False")
        dir == IF r[1].ret = "True"
               THEN [input |-> r[2].input, exe |-> FALSE, pipe |-> FALSE,
                     results |-> IF ok THEN r[2].input ELSE <<>>, runs |-> 1]
               ELSE IF n \in DOMAIN dirs THEN dirs[n]
               ELSE [input |-> <<>>, exe |-> FALSE, pipe |-> FALSE,
                     results |-> <<>>, runs |-> 0]
    IN  <<r[1], IF r[2].jobdir THEN (n :> dir) @@ dirs ELSE dirs>>

\* panair.py lines 43-81: <<what setup(overwrite) returns, the directories,
\* whether the job directory was made>>; input is what self.input_file holds
\* (<<>> when there is no such file), the user answering ow when asked
Panair_setup(n, input, dirs, overwrite, ow) ==
    LET over == IF overwrite = PyNone THEN ow ELSE overwrite
    IN  IF input = <<>> THEN <<"True", dirs, FALSE>>
        ELSE IF n \in DOMAIN dirs /\ over # "True" THEN <<"False", dirs, FALSE>>
        ELSE <<"True", (n :> [input |-> input, exe |-> TRUE, pipe |-> TRUE,
                              results |-> <<>>, runs |-> 0]) @@ dirs, TRUE>>

\* panair.py lines 84-97: <<how execute() ends, the directories>>; os.chdir
\* raises FileNotFoundError when there is no job directory
Panair_execute(n, dirs, ok) ==
    IF n \notin DOMAIN dirs THEN <<"raised", dirs>>
    ELSE <<"returned",
           [dirs EXCEPT ![n].runs = @ + 1,
                        ![n].results = IF ok /\ dirs[n].exe /\ dirs[n].pipe
                                       THEN dirs[n].input ELSE <<>>]>>

\* pralines.py lines 36-111 and 167-188: <<what setup(overwrite) returns, the
\* directories>>
Pralines_setup(self, dirs, overwrite, ow) ==
    LET n == Pralines_name(self)
        over == IF overwrite = PyNone THEN ow ELSE overwrite
        lines == [WT |-> "T", N |-> self.wing.nSec + 1, RA |-> self.wing.RA,
                  RT |-> Py(1, 1), S |-> self.a0,
                  LC |-> IF self.larc = "Hodson" THEN "H"
                         ELSE IF self.larc = "ModifiedSlender" THEN "M" ELSE "C"]
    IN  IF n \in DOMAIN dirs /\ over # "True" THEN <<"False", dirs>>
        ELSE <<"True", (n :> [input |-> lines, exe |-> FALSE, pipe |-> FALSE,
                              results |-> <<>>, runs |-> 0]) @@ dirs>>

\* the cap on the number of solver runs the callers ask for
MaxRuns == 2

\* machup_wing_cla.py lines 55-64: _run_machup makes the MachUp object for a
\* flat plate, sets its solver and method, and runs it unless its job
\* directory exists; sec_cl and cla (lines 83-92) pass the solver they are
\* given, None by default, and a method, 'Classical' by default
RunMachUp ==
    /\ job.runs < MaxRuns
    /\ \E w \in MachUpWings, so \in {PyNone, "linear", "nonlinear"},
          lo \in {"Classical", "Jones"}, error \in BOOLEAN, ok \in BOOLEAN :
          \E m \in {[pc |-> "ready", airfoil |-> [name |-> "flat_plate", dbdir |-> "AirfoilDatabase"],
                     wing |-> w, solver |-> so, lowra_method |-> lo,
                     setups |-> 0, ret |-> "none"]} :
          \E r \in {run_machup(m, cwd, disk.template, error, ok)} :
              /\ job' = [tool |-> "MachUp", runs |-> job.runs + 1, name |-> MachUp_name(m),
                         pc |-> r[1].pc, ret |-> r[1].ret,
                         existed |-> MachUp_name(m) \in DOMAIN cwd,
                         made |-> r[1].ret = "True", executed |-> r[1].ret = "True",
                         wanted |-> IF disk.template # <<>>
                                       /\ (so = PyNone \/ "solver" \in DOMAIN disk.template)
                                    THEN input_data(m, disk.template) ELSE <<>>]
              /\ cwd' = r[2]
    /\ UNCHANGED <<call, stdout, ecl, jouk, fs, ran, wing, mu, disk>>

\* panair_wing_cla.py lines 66-72: sec_cl runs MachUp for the wing, then
\* Panair on the file MachUp leaves in its job directory; with no MachUp job
\* directory to name, line 70 raises TypeError
SecCl ==
    /\ job.runs < MaxRuns
    /\ \E w \in MachUpWings, error \in BOOLEAN, ok \in BOOLEAN, pok \in BOOLEAN :
          \E m \in {[pc |-> "ready", airfoil |-> [name |-> "joukowski", dbdir |-> "AirfoilDatabase"],
                     wing |-> w, solver |-> PyNone, lowra_method |-> PyNone,
                     setups |-> 0, ret |-> "none"]} :
          \E r \in {run_machup(m, cwd, disk.template, error, ok)} :
          \E mn \in {MachUp_name(m)}, pn \in {Panair_name(m.airfoil, w)} :
          \E s \in {Panair_setup(pn, IF mn \in DOMAIN r[2] THEN r[2][mn].results ELSE <<>>,
                                 r[2], "False", "False")} :
          \E e \in {IF s[1] = "True" THEN Panair_execute(pn, s[2], pok)
                    ELSE <<"returned", s[2]>>} :
              IF r[1].pc = "raised" \/ r[1].ret = PyNone
              THEN /\ job' = [tool |-> "MachUp", runs |-> job.runs + 1, name |-> mn,
                              pc |-> "raised", ret |-> r[1].ret,
                              existed |-> mn \in DOMAIN cwd, made |-> FALSE,
                              executed |-> FALSE, wanted |-> <<>>]
                   /\ cwd' = r[2]
              ELSE /\ job' = [tool |-> "Panair", runs |-> job.runs + 1, name |-> pn,
                              pc |-> e[1], ret |-> s[1],
                              existed |-> pn \in DOMAIN cwd, made |-> s[3],
                              executed |-> s[1] = "True", wanted |-> <<>>]
                   /\ cwd' = e[2]
    /\ UNCHANGED <<call, stdout, ecl, jouk, fs, ran, wing, mu, disk>>

\* pralines_wing_cla.py lines 41-43: Pralines(w, a0, lowra), then
\* `if pr.setup(overwrite = False): pr.execute()`
RunPralines ==
    /\ job.runs < MaxRuns
    /\ \E w \in MachUpWings, larc \in {"Classical", "Hodson"}, ok \in BOOLEAN :
          \E pr \in {[wing |-> w, a0 |-> <<"6", ".", "283185307179586">>, larc |-> larc]} :
          \E n \in {Pralines_name(pr)}, s \in {Pralines_setup(pr, cwd, "False", "False")} :
              /\ job' = [tool |-> "Pralines", runs |-> job.runs + 1, name |-> n,
                         pc |-> "returned", ret |-> s[1],
                         existed |-> n \in DOMAIN cwd, made |-> s[1] = "True",
                         executed |-> s[1] = "True", wanted |-> <<>>]
              /\ cwd' = IF s[1] = "True"
                        THEN [s[2] EXCEPT ![n].runs = @ + 1,
                                          ![n].results = IF ok THEN s[2][n].input ELSE <<>>]
                        ELSE s[2]
    /\ UNCHANGED <<call, stdout, ecl, jouk, fs, ran, wing, mu, disk>>

\* the user removes a job directory
RemoveDir ==
    /\ \E n \in DOMAIN cwd : cwd' = [x \in DOMAIN cwd \ {n} |-> cwd[x]]
    /\ UNCHANGED <<call, stdout, ecl, jouk, fs, ran, wing, mu, disk, job>>

\* the resolution of the second call of a caller who extrapolates again is
\* Far times the finest level of the first
Far == 100

\* a caller whose call c has returned the number E calls extrapolate again, as
\* call d, on f2, f3 and E at the levels m2, m3 and Far * m3, with the same
\* options
Reextrapolate(c, d) ==
    /\ call[c].pc = "done" /\ call[d].pc = "idle"
    /\ IsFinite(call[c].value)
    /\ LET a == call[c].args
       IN  call' = [call EXCEPT ![d] =
                [Idle EXCEPT !.pc = "extrapolate",
                             !.args = [a EXCEPT !.m1 = a.m2, !.m2 = a.m3,
                                                !.m3 = Saturate(Far * a.m3.v, FALSE),
                                                !.f1 = a.f2, !.f2 = a.f3,
                                                !.f3 = call[c].value]]]
    /\ UNCHANGED <<stdout, rest>>

\* ------------------------------------------------------------ the inputs
\* the coarsest resolution levels are 1 .. MaxLevel
MaxLevel == 2

\* the samples are 0 .. MaxSample
MaxSample == 1

\* the levels that may follow level m: m itself (no refinement), its double,
\* its double to within one unit, its triple, its half
Refine(m) == {m, Add(m, m), Fin(2 * m.v + 1, FALSE), Fin(3 * m.v, FALSE),
              Fin(m.v \div 2, FALSE)}

LevelTriples ==
    {<<m1, m2, m3>> : m1 \in {Py(l, 1) : l \in 1..MaxLevel},
                      m2 \in UNION {Refine(Py(l, 1)) : l \in 1..MaxLevel},
                      m3 \in UNION {Refine(m) : m \in UNION {Refine(Py(l, 1)) : l \in 1..MaxLevel}}}

IsRefinement(t) == t[2] \in Refine(t[1]) /\ t[3] \in Refine(t[2])

SampleSet == {Py(s, 1) : s \in 0..MaxSample}

\* the default relative tolerance 1.0e-12 lies below the model's precision:
\* it is one unit
TinyTol == Fin(1, FALSE)

\* the pairs <<assumed order, relative tolerance>> a caller passes
Options == {<<Py(2, 1), TinyTol>>, <<Py(3, 1), Py(1, 100)>>}

Arguments(t, f1, f2, f3, o) ==
    [m1 |-> t[1], m2 |-> t[2], m3 |-> t[3], f1 |-> f1, f2 |-> f2, f3 |-> f3,
     p |-> o[1], reltol |-> o[2]]

Refinements == {u \in LevelTriples : IsRefinement(u)}

Inputs ==
    {[args |-> Arguments(t, f1, f2, f3, o), ctx |-> NoSynth] :
        t \in Refinements,
        f1 \in SampleSet, f2 \in SampleSet, f3 \in SampleSet, o \in Options}

\* the exponents of the synthetic samples are 1 .. MaxExp
MaxExp == 2

\* the coefficient of the synthetic error term, a multiple of every m^2 of
\* a doubling triple
SynthCoef == 12 * 12

\* the caller's f(m) = C + D / m**q
Synth(C, D, q, m) == Add(C, Truediv(D, Pow(m, q)))

SynthInputs ==
    {[args |-> Arguments(t, Synth(C, D, q, t[1]), Synth(C, D, q, t[2]),
                         Synth(C, D, q, t[3]), o),
      ctx |-> [C |-> C, D |-> D, q |-> q]] :
        t \in Refinements, C \in SampleSet,
        D \in {Py(SynthCoef, 1), Py(-SynthCoef, 1)},
        q \in {Py(e, 1) : e \in 1..MaxExp},
        o \in {<<Py(2, 1), Py(1, 100)>>}}

Init ==
    /\ call = [c \in Slots |-> Idle]
    /\ stdout = 0
    /\ ecl = [pc |-> "idle"]
    /\ jouk = [pc |-> "none"]
    /\ fs = {}
    /\ ran = 0
    /\ wing = [pc |-> "none"]
    /\ mu = [pc |-> "none"]
    /\ disk = [template |-> <<>>, jobdir |-> FALSE, input |-> <<>>]
    /\ job = [pc |-> "none", runs |-> 0]
    /\ cwd = <<>>

Next ==
    \/ Call("a", Inputs)
    \/ Extrapolate("a")
    \/ Re124("a")
    \/ ReArbitrary("a")
    \/ Iterate("a")
    \/ Return("a")

Spec == Init /\ [][Next]_vars

NextSynth ==
    \/ Call("a", SynthInputs)
    \/ Extrapolate("a")
    \/ Re124("a")
    \/ ReArbitrary("a")
    \/ Iterate("a")
    \/ Return("a")

\* one call on synthetic samples f(m) = C + D / m^q
SpecSynth == Init /\ [][NextSynth]_vars

NextAgain ==
    \/ Call("a", SynthInputs)
    \/ Reextrapolate("a", "b")
    \/ \E c \in Slots :
          \/ Extrapolate(c)
          \/ Re124(c)
          \/ ReArbitrary(c)
          \/ Iterate(c)
          \/ Return(c)

\* one call on synthetic samples f(m) = C + D / m^q, followed by a second call
\* that takes the first one's result as its finest sample
SpecAgain == Init /\ [][NextAgain]_vars

\* calls of panair.extrapolate_CL
NextCL ==
    \/ ExtrapolateCL
    \/ Extrapolate("a")
    \/ Re124("a")
    \/ ExtrapolateCLReturn

SpecCL == Init /\ [][NextCL]_vars

NextAirfoil ==
    \/ NewJoukowski
    \/ CreateAirfoil
    \/ PutFile
    \/ DeleteFile

\* one Joukowski airfoil, created in a database that its user also edits
SpecAirfoil == Init /\ [][NextAirfoil]_vars

NextWing == NewWing

\* the construction of one wing
SpecWing == Init /\ [][NextWing]_vars

NextMachUp ==
    \/ NewMachUp
    \/ SetAttributes
    \/ Setup
    \/ PutTemplate

\* one MachUp object set up from a template
SpecMachUp == Init /\ [][NextMachUp]_vars

NextJobs ==
    \/ PutTemplate
    \/ RunMachUp
    \/ SecCl
    \/ RunPralines
    \/ RemoveDir

\* the *_wing_cla callers running their solvers in one working directory
SpecJobs == Init /\ [][NextJobs]_vars

\* what two concurrent callers pass: the levels 2, 4, 8 (doubling), 2, 6, 12
\* and 2, 2, 4 (no refinement), on samples C + 144 / m^2
ConcInputs ==
    {in \in SynthInputs :
        /\ in.ctx.D = Py(SynthCoef, 1) /\ in.ctx.q = Py(2, 1)
        /\ in.args.m1 = Py(2, 1)
        /\ \/ in.args.m2 = Py(4, 1) /\ in.args.m3 = Py(8, 1)
           \/ in.args.m2 = Py(6, 1) /\ in.args.m3 = Py(12, 1)
           \/ in.args.m2 = Py(2, 1) /\ in.args.m3 = Py(4, 1) /\ in.ctx.C = Py(0, 1)}

NextConc ==
    \E c \in Slots :
        \/ Call(c, ConcInputs)
        \/ CallAgain(c, ConcInputs)
        \/ Extrapolate(c)
        \/ Re124(c)
        \/ ReArbitrary(c)
        \/ Iterate(c)
        \/ Return(c)

\* two callers, each calling extrapolate again and again, interleaved
SpecConc == Init /\ [][NextConc]_vars

\* ------------------------------------------------------- array samples
\* the arrays have 0 .. MaxLen elements
MaxLen == 2

\* the levels of the calls on arrays: a doubling and a tripling-doubling
ArrLevels == {<<Py(1, 1), Py(2, 1), Py(4, 1)>>, <<Py(2, 1), Py(6, 1), Py(12, 1)>>}

\* what one position of the three arrays may hold at levels t: samples of
\* -144 / m^2, the samples 27, 3, 1, the samples 1, 0, 1, or three zeros
Profiles(t) ==
    {<<Synth(Py(0, 1), Py(-SynthCoef, 1), Py(2, 1), t[1]),
       Synth(Py(0, 1), Py(-SynthCoef, 1), Py(2, 1), t[2]),
       Synth(Py(0, 1), Py(-SynthCoef, 1), Py(2, 1), t[3])>>,
     <<Py(27, 1), Py(3, 1), Py(1, 1)>>,
     <<Py(1, 1), Py(0, 1), Py(1, 1)>>,
     <<Py(0, 1), Py(0, 1), Py(0, 1)>>}

\* the sequences of at most MaxLen profiles
ProfileSeqs(t) == UNION {[1..n -> Profiles(t)] : n \in 0..MaxLen}

\* the k-th of three arrays built from a sequence of profiles
Column(ps, k) == NpArray(Elements([i \in 1..Len(ps) |-> ps[i][k]], Len(ps)))

\* calls on three arrays of equal length, and calls on three scalars
ArrInputs ==
    {[args |-> Arguments(t, Column(ps, 1), Column(ps, 2), Column(ps, 3),
                         <<Py(2, 1), Py(1, 100)>>),
      ctx |-> NoSynth] : t \in ArrLevels, ps \in UNION {ProfileSeqs(u) : u \in ArrLevels}}
    \cup
    {[args |-> Arguments(t, pr[1], pr[2], pr[3], <<Py(2, 1), Py(1, 100)>>),
      ctx |-> NoSynth] : t \in ArrLevels, pr \in UNION {Profiles(u) : u \in ArrLevels}}

NextArr ==
    \/ Call("a", ArrInputs)
    \/ Extrapolate("a")
    \/ Re124("a")
    \/ ReArbitrary("a")
    \/ Iterate("a")
    \/ Return("a")

\* one call on arrays of samples, or on scalars
SpecArr == Init /\ [][NextArr]_vars

\* ------------------------------------------- samples met by the average
\* calls at the levels 1, 8, 64 (both ratios one half), 2, 6, 12 and 1, 1, 3
\* on the samples 0, 3, -9/4 (the first average is f1), 0, 3, 9/2 (it is
\* f3), 3, 0, 3/4 (it is f2), 1, 1, 1 and 4, 2, 1 (of order 1 exactly at the
\* first levels), with the default order and the default tolerance, the
\* default order and the tolerance 1, or the order 1 and the default
\* tolerance
LogInputs ==
    {[args |-> Arguments(t, s[1], s[2], s[3], o), ctx |-> NoSynth] :
        t \in {<<Py(1, 1), Py(8, 1), Py(64, 1)>>, <<Py(2, 1), Py(6, 1), Py(12, 1)>>,
               <<Py(1, 1), Py(1, 1), Py(3, 1)>>, <<Py(1, 1), Py(2, 1), Py(4, 1)>>},
        s \in {<<Py(0, 1), Py(3, 1), Py(-9, 4)>>, <<Py(0, 1), Py(3, 1), Py(9, 2)>>,
               <<Py(3, 1), Py(0, 1), Py(3, 4)>>, <<Py(1, 1), Py(1, 1), Py(1, 1)>>,
               <<Py(4, 1), Py(2, 1), Py(1, 1)>>},
        o \in {<<Py(2, 1), TinyTol>>, <<Py(2, 1), Py(1, 1)>>, <<Py(1, 1), TinyTol>>}}

NextLog ==
    \/ Call("a", LogInputs)
    \/ Extrapolate("a")
    \/ Re124("a")
    \/ ReArbitrary("a")
    \/ Iterate("a")
    \/ Return("a")

\* one call whose averaged value may fall on a sample
SpecLog == Init /\ [][NextLog]_vars

\* --------------------------------------------------------------- claims
Frame(c) == call[c]

\* C1: extrapolate takes the closed-form branch re_124 exactly when
\* m3 = 2*m2 and m2 = 2*m1 hold to the last unit; every other triple of
\* levels, one unit off a doubling included, takes re_arbitrary.
C1_BranchIffExactDoubling ==
    \A c \in Slots :
        Frame(c).branch # "none" =>
            LET a == Frame(c).args
            IN  (Frame(c).branch = "re_124")
                    <=> (a.m3.v = 2 * a.m2.v /\ a.m2.v = 2 * a.m1.v)

\* a triple that is doubled to within one unit went to re_arbitrary
C1_Witness ==
    \E c \in Slots :
        /\ Frame(c).branch = "re_arbitrary"
        /\ Frame(c).args.m2.v = 2 * Frame(c).args.m1.v
        /\ Frame(c).args.m3.v = 2 * Frame(c).args.m2.v + 1

\* C2: in the doubling branch, for whole-number samples (whose thirds and
\* fifteenths are exact), the value returned satisfies
\* 45 * value = f1 - 20 * f2 + 64 * f3.
C2_DoublingClosedForm ==
    \A c \in Slots :
        (Frame(c).pc = "done" /\ Frame(c).branch = "re_124") =>
            LET a == Frame(c).args
            IN  /\ Frame(c).value.k = "fin"
                /\ 45 * Frame(c).value.v = a.f1.v - 20 * a.f2.v + 64 * a.f3.v

\* the doubling branch returned for three samples that are not all equal
C2_Witness ==
    \E c \in Slots :
        /\ Frame(c).pc = "done" /\ Frame(c).branch = "re_124"
        /\ Frame(c).args.f1 # Frame(c).args.f2
        /\ Frame(c).args.f2 # Frame(c).args.f3

\* C3: in the doubling branch the order returned is the integer 2, whatever
\* the assumed order, the tolerance and the samples are.
C3_DoublingOrderIsTwo ==
    \A c \in Slots :
        (Frame(c).pc = "done" /\ Frame(c).branch = "re_124") =>
            Frame(c).order = Py(2, 1)

\* the doubling branch returned for a call that assumed order 3
C3_Witness ==
    \E c \in Slots :
        /\ Frame(c).pc = "done" /\ Frame(c).branch = "re_124"
        /\ Frame(c).args.p = Py(3, 1)
        /\ Frame(c).args.f1 # Frame(c).args.f2

\* C4: samples of f(m) = C + D / m^2 at m1, 2*m1, 4*m1 are extrapolated to
\* exactly C, with order 2.
C4_ExactRecovery ==
    \A c \in Slots :
        (/\ Frame(c).pc = "done"
         /\ Frame(c).ctx.q = Py(2, 1)
         /\ Frame(c).args.m2.v = 2 * Frame(c).args.m1.v
         /\ Frame(c).args.m3.v = 4 * Frame(c).args.m1.v) =>
            /\ Frame(c).value.k = "fin"
            /\ Frame(c).value.v = Frame(c).ctx.C.v
            /\ Frame(c).order.k = "fin" /\ Frame(c).order.v = 2 * Scale

\* a second-order sequence with C # 0 and D # 0 was extrapolated at m, 2m, 4m
C4_Witness ==
    \E c \in Slots :
        /\ Frame(c).pc = "done"
        /\ Frame(c).ctx.q = Py(2, 1)
        /\ Frame(c).args.m1.v > Scale
        /\ Frame(c).args.m2.v = 2 * Frame(c).args.m1.v
        /\ Frame(c).args.m3.v = 4 * Frame(c).args.m1.v
        /\ Frame(c).ctx.C.v # 0 /\ Frame(c).ctx.D.v < 0
        /\ Frame(c).value.v # Frame(c).args.f3.v

LevelsRefine(a) == a.m1.v < a.m2.v /\ a.m2.v < a.m3.v

\* C5: for samples of f(m) = C + D / m^q at levels m1 < m2 < m3 that are not
\* a doubling, the iterative branch ends within 100 passes with an order
\* close to q and a value close to C (each to within one half).
C5_ArbitraryRatioConverges ==
    \A c \in Slots :
        (/\ Frame(c).pc = "done" /\ Frame(c).branch = "re_arbitrary"
         /\ Frame(c).ctx.q.k = "fin" /\ Frame(c).ctx.D.v # 0
         /\ LevelsRefine(Frame(c).args)) =>
            /\ Frame(c).loc.n <= MaxIter
            /\ Frame(c).order.k = "fin"
            /\ 2 * IAbs(Frame(c).order.v - Frame(c).ctx.q.v) <= Scale
            /\ Frame(c).value.k = "fin"
            /\ 2 * IAbs(Frame(c).value.v - Frame(c).ctx.C.v) <= Scale

\* the loop of a call on samples C + D / m^q at refining, non-doubling levels
\* stopped on its tolerance before the 100th pass, with a finite value more
\* than 100 away from C and an order below one half
C5_Witness ==
    \E c \in Slots :
        /\ Frame(c).pc = "done" /\ Frame(c).branch = "re_arbitrary"
        /\ Frame(c).ctx.q.k = "fin" /\ Frame(c).ctx.D.v # 0
        /\ LevelsRefine(Frame(c).args)
        /\ Frame(c).loc.n < MaxIter
        /\ Converged(Frame(c).loc, Frame(c).args)
        /\ Frame(c).value.k = "fin"
        /\ IAbs(Frame(c).value.v - Frame(c).ctx.C.v) > 100 * Scale
        /\ Frame(c).order.k = "fin" /\ 2 * IAbs(Frame(c).order.v) < Scale

\* C6: the iterative branch makes at least 1 and at most 100 passes and then
\* returns: the pass count never exceeds 100, a call still in its loop has
\* made fewer than 100, and a call at or past its return has made at least 1.
C6_LoopBounded ==
    \A c \in Slots :
        /\ Frame(c).loc.n <= MaxIter
        /\ Frame(c).pc = "loop" => Frame(c).loc.n < MaxIter
        /\ (Frame(c).pc \in {"return", "done"} /\ Frame(c).branch = "re_arbitrary")
              => Frame(c).loc.n >= 1

\* the loop was left by break after more than one and fewer than 100 passes
C6_Witness ==
    \E c \in Slots :
        /\ Frame(c).pc = "done" /\ Frame(c).branch = "re_arbitrary"
        /\ Frame(c).loc.n > 1 /\ Frame(c).loc.n < MaxIter
        /\ Converged(Frame(c).loc, Frame(c).args)

\* C7: the iterative branch returns the pair of its last pass: the value is
\* that pass's fextavg, the order that pass's pavg, which is the minimum of
\* the two orders estimated against that very value; so it is too when all
\* 100 passes were made without meeting the tolerance, and nothing is raised.
C7_ReturnsLastPass ==
    \A c \in Slots :
        (Frame(c).pc = "done" /\ Frame(c).branch = "re_arbitrary") =>
            LET a == Frame(c).args
                l == Frame(c).loc
            IN  /\ Frame(c).value = l.fextavg
                /\ Frame(c).order = l.pavg
                /\ Frame(c).order = Min(order(a.f1, a.f2, Frame(c).value, l.r21),
                                        order(a.f2, a.f3, Frame(c).value, l.r32))

\* 100 passes were made, the tolerance was not met, finite numbers returned
C7_Witness ==
    \E c \in Slots :
        /\ Frame(c).pc = "done" /\ Frame(c).branch = "re_arbitrary"
        /\ Frame(c).loc.n = MaxIter
        /\ ~Converged(Frame(c).loc, Frame(c).args)
        /\ Frame(c).value.k = "fin" /\ Frame(c).order.k = "fin"
        /\ Frame(c).order.v # Frame(c).args.p.v

\* C8: a call with m1 = m2 raises nothing and returns a value that is
\* infinite or nan, whatever the samples are.
C8_DegenerateRefinement ==
    \A c \in Slots :
        (Frame(c).branch # "none" /\ Frame(c).args.m1.v = Frame(c).args.m2.v) =>
            /\ Frame(c).pc # "raised"
            /\ Frame(c).branch = "re_arbitrary"
            /\ Frame(c).pc = "done" => IsNonFinite(Frame(c).value)

\* a call with m1 = m2 # m3 and f1 # f2 returned a non-finite value
C8_Witness ==
    \E c \in Slots :
        /\ Frame(c).pc = "done"
        /\ Frame(c).args.m1.v = Frame(c).args.m2.v
        /\ Frame(c).args.m2.v # Frame(c).args.m3.v
        /\ Frame(c).args.f1 # Frame(c).args.f2
        /\ IsNonFinite(Frame(c).value)

\* the positions of a call's samples: those of its arrays, one for scalars
Positions(a) == IF IsArr(a.f1) THEN 1..Size(a.f1) ELSE {1}

\* C9: extrapolate never raises: for positive levels and float samples each
\* call ends by returning a pair of numbers, finite or not.
C9_NeverRaises ==
    \A c \in Slots :
        /\ Frame(c).pc # "raised"
        /\ Frame(c).pc = "done" =>
              /\ \A i \in Positions(Frame(c).args) :
                     At(Frame(c).value, i).k \in {"fin", "inf", "nan"}
              /\ \A i \in Positions(Frame(c).args) :
                     At(Frame(c).order, i).k \in {"fin", "inf", "nan"}

\* a call with distinct levels divided by zero and took the logarithm of
\* zero, and returned a non-finite order
C9_Witness ==
    \E c \in Slots :
        /\ Frame(c).pc = "done" /\ Frame(c).branch = "re_arbitrary"
        /\ Frame(c).args.m1 # Frame(c).args.m2 /\ Frame(c).args.m2 # Frame(c).args.m3
        /\ IsNonFinite(Frame(c).order)

\* C10: under every interleaving of two callers that call again and again,
\* each call returns the pair it returns when run alone on its arguments.
C10_Stateless ==
    \A c \in Slots :
        Frame(c).pc = "done" => <<Frame(c).value, Frame(c).order>> = RunAlone(Frame(c).args)

\* a call returned from its loop while the other caller was inside its own
\* loop on other arguments
C10_Witness ==
    /\ Frame("a").pc = "done" /\ Frame("a").branch = "re_arbitrary"
    /\ Frame("b").pc = "loop" /\ Frame("b").loc.n > 1
    /\ Frame("a").args # Frame("b").args
    /\ Frame("a").loc.n > 1

\* C11: a call that returns on arrays of n elements returns an array of n
\* elements as its value, and as its order an array of n elements from the
\* iterative branch and the scalar 2 from the doubling branch; a call on
\* scalars returns two scalars.
C11_ShapePreserved ==
    \A c \in Slots :
        Frame(c).pc = "done" =>
            IF IsArr(Frame(c).args.f1)
            THEN /\ IsArr(Frame(c).value)
                 /\ Size(Frame(c).value) = Size(Frame(c).args.f1)
                 /\ Frame(c).branch = "re_arbitrary" =>
                        /\ IsArr(Frame(c).order)
                        /\ Size(Frame(c).order) = Size(Frame(c).args.f1)
                 /\ Frame(c).branch = "re_124" => Frame(c).order = Py(2, 1)
            ELSE ~IsArr(Frame(c).value) /\ ~IsArr(Frame(c).order)

\* the iterative branch returned on arrays of two elements, with two
\* different finite orders
C11_Witness ==
    \E c \in Slots :
        /\ Frame(c).pc = "done" /\ Frame(c).branch = "re_arbitrary"
        /\ IsArr(Frame(c).args.f1) /\ Size(Frame(c).args.f1) = 2
        /\ IsArr(Frame(c).order)
        /\ Frame(c).order.el[1].k = "fin" /\ Frame(c).order.el[2].k = "fin"
        /\ Frame(c).order.el[1] # Frame(c).order.el[2]

\* the call made on position i of the arrays alone
OnePosition(a, i) ==
    [a EXCEPT !.f1 = Arr(<<a.f1.el[i]>>), !.f2 = Arr(<<a.f2.el[i]>>),
              !.f3 = Arr(<<a.f3.el[i]>>)]

\* C12: in the iterative branch the value and the order returned at each
\* position of the arrays are those the call returns on that position's
\* samples alone, whatever the other positions hold.
C12_PositionsIndependent ==
    \A c \in Slots :
        (/\ Frame(c).pc = "done" /\ Frame(c).branch = "re_arbitrary"
         /\ IsArr(Frame(c).args.f1)) =>
            \A i \in 1..Size(Frame(c).args.f1) :
                LET alone == Passes(EnterLoop(Frame(c).args),
                                    OnePosition(Frame(c).args, i), MaxIter)
                IN  /\ Frame(c).value.el[i] = alone.fextavg.el[1]
                    /\ Frame(c).order.el[i] = alone.pavg.el[1]

\* a call on two positions returned, at the position whose samples alone
\* meet the tolerance before the 100th pass, the value of the 100th pass
C12_Witness ==
    \E c \in Slots :
        /\ Frame(c).pc = "done" /\ Frame(c).branch = "re_arbitrary"
        /\ IsArr(Frame(c).args.f1) /\ Size(Frame(c).args.f1) = 2
        /\ Frame(c).loc.n = MaxIter
        /\ \E i \in 1..2 :
              LET l == Passes(EnterLoop(Frame(c).args), OnePosition(Frame(c).args, i), MaxIter)
              IN  /\ l.n < MaxIter
                  /\ l.fextavg.el[1] # Frame(c).value.el[i]

\* the order the pass that follows locals l starts from: the assumed order
\* before the first pass, then the order the previous pass ended with
CarriedOrder(l, a) == IF l.n = 0 THEN a.p ELSE l.pavg

\* C19: every pass of the loop extrapolates fext1 and fext2 with the order the
\* previous pass ended with (the assumed order in the first pass), takes
\* their average (fext1 + fext2) / 2 as the value, and ends with, at each
\* position, the smaller of the two orders estimated against that value: one
\* of the two, with neither of them below it.
C19_PassComputation ==
    [][\A c \in Slots :
          (call[c].pc = "loop" /\ call'[c].loc.n = call[c].loc.n + 1) =>
              \A i \in Positions(call[c].args) :
                  LET a == call[c].args
                      p == At(CarriedOrder(call[c].loc, a), i)
                      fext1 == extrap(At(a.f1, i), At(a.f2, i), call[c].loc.r21, p)
                      fext2 == extrap(At(a.f2, i), At(a.f3, i), call[c].loc.r32, p)
                      fextavg == At(call'[c].loc.fextavg, i)
                      p1 == order(At(a.f1, i), At(a.f2, i), fextavg, call[c].loc.r21)
                      p2 == order(At(a.f2, i), At(a.f3, i), fextavg, call[c].loc.r32)
                      pnew == At(call'[c].loc.p, i)
                  IN  /\ fextavg = Truediv(Add(fext1, fext2), Py(2, 1))
                      /\ pnew \in {p1, p2}
                      /\ ~Less(p1, pnew) /\ ~Less(p2, pnew)
                      /\ IsArr(call'[c].loc.p) = IsArr(a.f1)]_vars

\* a call on arrays of two elements has made a third pass or a later one
\* that ended with two different finite orders
C19_Witness ==
    \E c \in Slots :
        /\ Frame(c).pc = "loop" /\ Frame(c).loc.n >= 3
        /\ IsArr(Frame(c).args.f1) /\ Size(Frame(c).args.f1) = 2
        /\ Frame(c).loc.p.el[1].k = "fin" /\ Frame(c).loc.p.el[2].k = "fin"
        /\ Less(Frame(c).loc.p.el[1], Frame(c).loc.p.el[2])

\* C20: the baseline error1 = |p_new - assumed order| is set by the first pass
\* and kept by every later pass; every pass sets error = |p_new - p_prev| /
\* error1; a pass is the last one exactly when every element of its error is
\* below the tolerance, or it is the 100th; after the last pass no further
\* pass is made.  (Calls on samples with at least one position.)
C20_StoppingRule ==
    [][\A c \in Slots :
          /\ (call[c].pc = "loop" /\ call'[c].loc.n = call[c].loc.n + 1
               /\ Positions(call[c].args) # {}) =>
                 /\ \A i \in Positions(call[c].args) :
                        LET pnew == At(call'[c].loc.pavg, i)
                            pprev == At(CarriedOrder(call[c].loc, call[c].args), i)
                            error1 == At(call'[c].loc.error1, i)
                        IN  /\ error1 = IF call[c].loc.n = 0
                                         THEN Abs(Sub(pnew, call[c].args.p))
                                         ELSE At(call[c].loc.error1, i)
                            /\ At(call'[c].loc.error, i) = Truediv(Abs(Sub(pnew, pprev)), error1)
                 /\ (call'[c].pc = "return") <=>
                        \/ \A i \in Positions(call[c].args) :
                              Less(At(call'[c].loc.error, i), call[c].args.reltol)
                        \/ call'[c].loc.n = MaxIter
                 /\ call'[c].pc \in {"return", "loop"}
          /\ call[c].pc \in {"return", "done"} =>
                 (call'[c].pc \in {"return", "done"} => call'[c].loc = call[c].loc)]_vars

\* a call on arrays of two elements left its loop after its third pass or a
\* later one and before the 100th, with two different errors below the
\* tolerance and two different baselines
C20_Witness ==
    \E c \in Slots :
        /\ Frame(c).pc = "return" /\ Frame(c).loc.n > 2 /\ Frame(c).loc.n < MaxIter
        /\ IsArr(Frame(c).args.f1) /\ Size(Frame(c).args.f1) = 2
        /\ Frame(c).loc.error.el[1] # Frame(c).loc.error.el[2]
        /\ Frame(c).loc.error1.el[1] # Frame(c).loc.error1.el[2]

\* C13: when a caller extrapolates E from (f1, f2, f3) at (m1, m2, m3) and then
\* E' from (f2, f3, E) at (m2, m3, M) with M far beyond m3, the second
\* correction |E' - E| is smaller than the first correction |E - f3|.
C13_DiminishingCorrection ==
    (/\ Frame("a").pc = "done" /\ Frame("b").pc = "done"
     /\ Frame("a").args.f3 # Frame("a").value) =>
        /\ IsFinite(Frame("b").value)
        /\ IAbs(Frame("b").value.v - Frame("a").value.v)
              < IAbs(Frame("a").value.v - Frame("a").args.f3.v)

\* the first call took the doubling branch and returned the limit C of its
\* samples C + D / m^2 exactly; the second call has returned from its loop
C13_Witness ==
    /\ Frame("a").pc = "done" /\ Frame("a").branch = "re_124"
    /\ Frame("a").ctx.q = Py(2, 1) /\ Frame("a").value.v = Frame("a").ctx.C.v
    /\ Frame("a").args.f3 # Frame("a").value
    /\ Frame("b").pc = "done" /\ Frame("b").branch = "re_arbitrary"
    /\ Frame("b").args.f3 = Frame("a").value

\* C14: extrapolate_CL on analyses of n, 2 n and 4 n sections reduces the medium
\* and the fine lift coefficients to n values each, value k being the
\* area-weighted mean of the medium sections 2k, 2k+1 and of the fine sections
\* 4k .. 4k+3 (counted from 0); it extrapolates at the levels 1, 2, 4, through
\* the doubling branch; it returns n lift coefficients, those of re_124,
\* paired with the coarse analysis' section y-coordinates.
C14_ExtrapolateCL ==
    /\ ecl.pc = "called" =>
          /\ call["a"].pc \in {"extrapolate", "re_124", "done"}
          /\ <<call["a"].args.m1, call["a"].args.m2, call["a"].args.m3>>
                = <<Py(1, 1), Py(2, 1), Py(4, 1)>>
    /\ ecl.pc = "done" =>
        LET n == Size(ecl.panair1.sec_CL)
            A2 == ecl.panair2.sec_Area.el
            C2 == ecl.panair2.sec_CL.el
            A3 == ecl.panair3.sec_Area.el
            C3 == ecl.panair3.sec_CL.el
        IN  /\ Size(ecl.clp2) = n /\ Size(ecl.clp3) = n
            /\ \A k \in 0..(n - 1) :
                  /\ ecl.clp2.el[k + 1] =
                        Truediv(Add(Mul(C2[2 * k + 1], A2[2 * k + 1]),
                                    Mul(C2[2 * k + 2], A2[2 * k + 2])),
                                Add(A2[2 * k + 1], A2[2 * k + 2]))
                  /\ ecl.clp3.el[k + 1] =
                        Truediv(Add(Add(Add(Mul(C3[4 * k + 1], A3[4 * k + 1]),
                                            Mul(C3[4 * k + 2], A3[4 * k + 2])),
                                        Mul(C3[4 * k + 3], A3[4 * k + 3])),
                                    Mul(C3[4 * k + 4], A3[4 * k + 4])),
                                Add(Add(Add(A3[4 * k + 1], A3[4 * k + 2]),
                                        A3[4 * k + 3]), A3[4 * k + 4]))
                  /\ ecl.cl_extrapolated.el[k + 1] =
                        re_124(Py(1, 1), Py(2, 1), Py(4, 1), ecl.panair1.sec_CL.el[k + 1],
                               ecl.clp2.el[k + 1], ecl.clp3.el[k + 1])[1]
            /\ call["a"].branch = "re_124"
            /\ IsArr(ecl.cl_extrapolated) /\ Size(ecl.cl_extrapolated) = n
            /\ ecl.y_extrapolated = ecl.panair1.sec_y

\* extrapolate_CL has returned on a coarse analysis of two sections, with two
\* different means of the medium sections and of the fine sections, none of
\* them the plain mean of the sections
C14_Witness ==
    /\ ecl.pc = "done" /\ Size(ecl.panair1.sec_CL) = 2
    /\ ecl.clp2.el[1] # ecl.clp2.el[2] /\ ecl.clp3.el[1] # ecl.clp3.el[2]
    /\ ecl.clp2.el[2] # Truediv(Add(ecl.panair2.sec_CL.el[3], ecl.panair2.sec_CL.el[4]), Py(2, 1))
    /\ ecl.clp3.el[2] # Truediv(Sum(SubSeq(ecl.panair3.sec_CL.el, 5, 8), 4), Py(4, 1))
    /\ ecl.cl_extrapolated.el[1] # ecl.cl_extrapolated.el[2]

\* the database holds both files of the airfoil
InDatabase(files) ==
    airfoil_json_name(jouk) \in files /\ airfoil_profile_name(jouk) \in files

C17_EvenPoints ==
    jouk.pc # "none" =>
        /\ jouk.npts % 2 = 0
        /\ jouk.npts = IF jouk.requested % 2 = 0 THEN jouk.requested ELSE jouk.requested + 1
        /\ LET n == name(jouk)
               d == Digits(jouk.requested + (jouk.requested % 2))
           IN  /\ Len(n) > Len(d) + 1
               /\ SubSeq(n, Len(n) - Len(d), Len(n)) = <<"_af">> \o d
               /\ "." \notin {n[i] : i \in 1..Len(n)}

\* an airfoil was constructed with 99 points requested: it stores 100
C17_Witness ==
    /\ jouk.pc # "none" /\ jouk.requested = 99 /\ jouk.npts = 100
    /\ name(jouk) = <<"joukowski_t", "0", "p", "1", "2", "_cl", "0", "p", "5", "_af",
                       "1", "0", "0">>

\* C16: a wing built with symm = False has 2 nSec + 1 section endpoints in y
\* and 2 nSec centerpoints in yc, thetac and cc; a wing built with symm = True
\* has nSec + 1 endpoints and nSec centerpoints.
C16_SectionCounts ==
    wing.pc = "built" =>
        LET total == IF wing.symm THEN wing.nSec ELSE 2 * wing.nSec
        IN  /\ Len(wing.y) = total + 1
            /\ Len(wing.yc) = total
            /\ Len(wing.thetac) = total /\ Len(wing.cc) = total

\* a wing of both semispans was built with 3 nSec + 1 >= 7 centerpoints,
\* next to 2 nSec section areas
C16_Witness ==
    /\ wing.pc = "built" /\ ~wing.symm /\ wing.nSec >= 2
    /\ Len(wing.yc) = 3 * wing.nSec + 1
    /\ Len(sec_Area(wing)) = 2 * wing.nSec

\* C18: a setup that returns True has written a job input file in which the
\* solver type is the object's solver when that is not None, and else the
\* whole solver entry is the template's (or absent as in the template); and
\* in which wing_1's low-aspect-ratio method is the object's lowra_method
\* when that is not None, and else the template's (or absent as in the
\* template).
C18_OnlyWhenSet ==
    [][(mu.pc # "none" /\ mu'.setups = mu.setups + 1 /\ mu'.ret = "True") =>
          LET t == disk.template
              j == disk'.input
              tw == t.wings.wing_1
              jw == j.wings.wing_1
          IN  /\ j # <<>>
              /\ IF mu.solver # PyNone
                 THEN /\ j.solver.type = mu.solver
                      /\ j.solver.convergence = t.solver.convergence
                 ELSE /\ ("solver" \in DOMAIN j) = ("solver" \in DOMAIN t)
                      /\ "solver" \in DOMAIN t => j.solver = t.solver
              /\ IF mu.lowra_method # PyNone
                 THEN jw.low_aspect_ratio_method = mu.lowra_method
                 ELSE /\ ("low_aspect_ratio_method" \in DOMAIN jw)
                            = ("low_aspect_ratio_method" \in DOMAIN tw)
                      /\ "low_aspect_ratio_method" \in DOMAIN tw =>
                            jw.low_aspect_ratio_method = tw.low_aspect_ratio_method]_vars

\* a setup with solver None and a method set has returned True: the job file
\* holds the template's nonlinear solver and the object's method in the place
\* of the template's
C18_Witness ==
    /\ mu.pc = "returned" /\ mu.ret = "True"
    /\ mu.solver = PyNone /\ mu.lowra_method = "Jones"
    /\ "low_aspect_ratio_method" \in DOMAIN disk.template.wings.wing_1
    /\ disk.template.wings.wing_1.low_aspect_ratio_method = "Hodson"
    /\ disk.input # <<>>
    /\ "solver" \in DOMAIN disk.input
    /\ disk.input.solver.type = "nonlinear"
    /\ disk.input.wings.wing_1.low_aspect_ratio_method = "Jones"

\* the number v is one of the samples of the call
Coincides(v, a) == Equal(v, a.f1) \/ Equal(v, a.f2) \/ Equal(v, a.f3)

\* the averaged value of the first pass of the loop
FirstCandidate(a) == Body(EnterLoop(a), a).fextavg

C22_ExistingDirectoryKept ==
    [][(job'.runs = job.runs + 1 /\ job'.existed) =>
          /\ job'.ret \in {"False", PyNone}
          /\ ~job'.executed
          /\ job'.name \in DOMAIN cwd'
          /\ cwd'[job'.name] = cwd[job'.name]]_vars

\* a run of Panair found its job directory in place with results in it, got
\* False from setup and did not execute: one solver run was made there
C22_Witness ==
    /\ job.pc = "returned" /\ job.tool = "Panair"
    /\ job.existed /\ job.ret = "False" /\ ~job.executed
    /\ job.name \in DOMAIN cwd
    /\ cwd[job.name].runs = 1 /\ cwd[job.name].results # <<>>

\* C23: when Panair.setup returns True in sec_cl it has made the job
\* directory in that call and put the executable, the input file and the
\* pipe file in it; and execute is invoked only after such a call.
C23_TrueOnlyWhenSetUp ==
    [][(job'.runs = job.runs + 1 /\ job'.tool = "Panair") =>
          /\ job'.ret = "True" =>
                /\ job'.made
                /\ job'.name \notin DOMAIN cwd
                /\ job'.name \in DOMAIN cwd'
                /\ cwd'[job'.name].exe /\ cwd'[job'.name].pipe
                /\ cwd'[job'.name].input # <<>>
          /\ job'.executed => job'.made]_vars

\* Panair.setup made the job directory and returned True, and the solver was
\* executed in it and left results
C23_Witness ==
    /\ job.pc = "returned" /\ job.tool = "Panair"
    /\ job.ret = "True" /\ job.made /\ job.executed
    /\ job.name \in DOMAIN cwd
    /\ cwd[job.name].exe /\ cwd[job.name].pipe
    /\ cwd[job.name].results # <<>>

\* C24: the job directory that bears the name of a MachUp analysis holds the
\* input file that analysis generates: analyses whose input files differ
\* have different names, and none finds the directory of another in place.
C24_DistinctInputsDistinctNames ==
    (job.pc # "none" /\ job.tool = "MachUp" /\ job.wanted # <<>>) =>
        \A n \in DOMAIN cwd :
            (Head(n) = "machup_" /\ cwd[n].input # <<>> /\ cwd[n].input # job.wanted)
                => n # job.name

\* a MachUp analysis made its own job directory beside that of another
\* analysis with another input file
C24_Witness ==
    /\ job.pc = "returned" /\ job.tool = "MachUp"
    /\ job.made /\ ~job.existed /\ job.wanted # <<>>
    /\ \E n \in DOMAIN cwd :
          /\ n # job.name /\ Head(n) = "machup_"
          /\ cwd[n].input # <<>> /\ cwd[n].input # job.wanted

====
